---------------------------- MODULE Spec2Model ----------------------------
(***************************************************************************)
(* Model of the ulog runtime core (src/src/ulog.c, 16-bit identifiers):    *)
(* the bounded ring of LogPacket slots, the overrun counter, the COBS      *)
(* frame encoder, the drain _ulog_transmit, and the port layers that       *)
(* schedule the drain (ASX reactor, FreeRTOS idle hook, Linux worker).     *)
(* Bytes are naturals in 0..255; arrays keep the C indices (from 0).       *)
(***************************************************************************)
EXTENDS Integers, Sequences, FiniteSets

(***************************************************************************)
(* Program constants.                                                      *)
(***************************************************************************)
COBS_EOF == 166
ULOG_ID_START == 32766
ULOG_ID_OVERRUN == 32767
MAX_PAYLOAD == 4
ULOG_ID_SIZE == 2

\* Number of slots of the ring. The source default is 64 (any value that
\* fits the uint8_t indices may be configured); the model uses a small ring.
ULOG_QUEUE_SIZE == 3

\* Enqueue attempts made in the free-running specifications.
MaxAttempts == 4

\* Enqueue attempts of one burst against a held drain: enough to take the
\* uint8_t overrun counter past its saturation value.
MaxBurst == ULOG_QUEUE_SIZE + 257

\* tx_encoded without room for the end-of-frame byte.
TxSize_no_eof == MAX_PAYLOAD + ULOG_ID_SIZE + 1

\* sizeof(tx_encoded) and sizeof(LogPacket.payload)
TxSize == MAX_PAYLOAD + ULOG_ID_SIZE + 2
PayloadSize == ULOG_ID_SIZE + MAX_PAYLOAD

SlotIndex == 0 .. (ULOG_QUEUE_SIZE - 1)

\* The enqueue entry points, by number of data bytes.
EnqueueFns == {"ulog_detail_enqueue", "ulog_detail_enqueue_1", "ulog_detail_enqueue_2",
               "ulog_detail_enqueue_3", "ulog_detail_enqueue_4"}

\* The ports that schedule the drain. "poll" is the bare-metal port, where
\* the application calls _ulog_on_transmit whenever it likes.
\* "asx8" is the
\* ASX build with 8-bit identifiers, which has its own core (ulog.cpp).
Ports == {"poll", "asx", "freertos", "linux", "asx8"}

\* Byte values the body of a frame is drawn from when the encoder is
\* exercised on its own: the sentinel, its neighbours and the extremes.
CodecBytes == {0, 1, 165, 166, 167, 255}

VARIABLES
    log_head,               \* ulog.c:60
    log_tail,               \* ulog.c:60
    logs_circular_buffer,   \* ulog.c:63
    tx_encoded,             \* ulog.c:69
    buffer_overrun,         \* ulog.c:75
    started,                \* the port's constructor has run _ulog_init
    uart_ready,             \* _ULOG_UART_TX_READY() of an asynchronous transport
    notified,               \* pending reactor notification / event bit
    worker_pc,              \* position of the Linux worker thread
    port,                   \* the port the program is built for
    sink,                   \* frames handed to _ULOG_PORT_SEND_DATA, in order
    attempts,               \* number of enqueue calls made so far
    accepted,               \* bodies of the packets that got a slot, in order
    last_call,              \* what the most recent call did
    phase,                  \* producer scenario
    producer_fn,            \* the entry point a scripted producer uses
    burst_start,            \* value of attempts when the drain was held
    codec_in,               \* body given to the encoder on its own
    codec_len,              \* encoded length it returned
    call_in,                \* arguments given to the logging front end on its own
    call_out,               \* what the front end made of them
    record_calls,           \* enqueue calls the log call in progress has still to make
    record,                 \* the log call in progress, or the last one made
    flush_pc,               \* position of a thread inside ulog_flush
    main_enqueue,           \* position of the main-context producer inside an enqueue call
    interrupts,             \* the processor's global interrupt enable
    context,                \* where the producer code runs: main, an ISR, a critical section
    stop_thread,            \* ulog_linux.cpp:31
    deinit_pc               \* position of the thread that runs _ulog_linux_deinit

coreVars == <<log_head, log_tail, logs_circular_buffer, tx_encoded, buffer_overrun>>
portVars == <<started, uart_ready, notified, worker_pc, port>>
obsVars == <<sink, attempts, accepted, last_call>>
scenarioVars == <<phase, producer_fn, burst_start>>
codecVars == <<codec_in, codec_len, call_in, call_out>>
recordVars == <<record_calls, record>>
contextVars == <<flush_pc, main_enqueue, interrupts, context, stop_thread, deinit_pc>>
vars == <<log_head, log_tail, logs_circular_buffer, tx_encoded, buffer_overrun,
          started, uart_ready, notified, worker_pc, port,
          sink, attempts, accepted, last_call,
          phase, producer_fn, burst_start, codec_in, codec_len, call_in, call_out,
          record_calls, record, flush_pc, main_enqueue, interrupts, context,
          stop_thread, deinit_pc>>

(***************************************************************************)
(* Data                                                                    *)
(***************************************************************************)
Min(a, b) == IF a < b THEN a ELSE b

\* A LogPacket in static storage: all zero.
ZeroPacket == [payload_len |-> 0, payload |-> [i \in 0 .. (PayloadSize - 1) |-> 0]]

\* tx_encoded as initialised: the pre-encoded application start frame.
TxEncodedInit ==
    [i \in 0 .. (TxSize - 1) |->
        IF i = 0 THEN 3
        ELSE IF i = 1 THEN ULOG_ID_START \div 256
        ELSE IF i = 2 THEN ULOG_ID_START % 256
        ELSE IF i = 3 THEN COBS_EOF
        ELSE 0]

\* The first len bytes of a buffer, as the sequence handed to the sink.
Bytes(buf, len) == [i \in 1 .. len |-> buf[i - 1]]

\* The body of a packet: payload[0 .. payload_len-1].
Body(pkt) == Bytes(pkt.payload, pkt.payload_len)

\* The body a call enqueue_k(id, args) asks to log: id MSB, id LSB, data.
CallBody(id, args) == <<id \div 256, id % 256>> \o args


\* reserve_log_packet without the latch: an attempt made while the counter is
\* non-zero probes the ring again and takes a slot the drain has freed.
reserve_log_packet_nolatch(head, tail, overrun) ==
    LET next == (head + 1) % ULOG_QUEUE_SIZE IN
    IF next # tail
    THEN [reserved |-> TRUE, slot |-> head, log_head |-> next, buffer_overrun |-> overrun]
    ELSE [reserved |-> FALSE, slot |-> head, log_head |-> head,
          buffer_overrun |-> IF overrun < 255 THEN overrun + 1 ELSE overrun]

\* reserve_log_packet without the full test: a full ring gives up its oldest
\* packets to the new one.
reserve_log_packet_overwrite(head, tail, overrun) ==
    IF overrun = 0
    THEN [reserved |-> TRUE, slot |-> head,
          log_head |-> (head + 1) % ULOG_QUEUE_SIZE, buffer_overrun |-> overrun]
    ELSE [reserved |-> FALSE, slot |-> head, log_head |-> head,
          buffer_overrun |-> IF overrun < 255 THEN overrun + 1 ELSE overrun]

\* reserve_log_packet with a counter that is incremented without the
\* saturation test: the uint8_t wraps from 255 to 0.
reserve_log_packet_wrap(head, tail, overrun) ==
    IF overrun = 0
    THEN LET next == (head + 1) % ULOG_QUEUE_SIZE IN
         IF next # tail
         THEN [reserved |-> TRUE, slot |-> head, log_head |-> next, buffer_overrun |-> overrun]
         ELSE [reserved |-> FALSE, slot |-> head, log_head |-> head, buffer_overrun |-> 1]
    ELSE [reserved |-> FALSE, slot |-> head, log_head |-> head,
          buffer_overrun |-> (overrun + 1) % 256]

(***************************************************************************)
(* reserve_log_packet (ulog.c:86-115). The whole body runs inside one      *)
(* critical section. Result: whether a slot was reserved (retval != NULL), *)
(* its index, and the new values of log_head and buffer_overrun.           *)
(***************************************************************************)
reserve_log_packet(head, tail, overrun) ==
    IF overrun = 0
    THEN LET next == (head + 1) % ULOG_QUEUE_SIZE IN
         IF next # tail
         THEN [reserved |-> TRUE, slot |-> head, log_head |-> next, buffer_overrun |-> overrun]
         ELSE [reserved |-> FALSE, slot |-> head, log_head |-> head, buffer_overrun |-> 1]
    ELSE [reserved |-> FALSE, slot |-> head, log_head |-> head,
          buffer_overrun |-> IF overrun < 255 THEN overrun + 1 ELSE overrun]

\* The stores with the id least significant byte first.
FillPacket_lsb_first(pkt, id, args) ==
    [payload_len |-> ULOG_ID_SIZE + Len(args),
     payload |-> [i \in 0 .. (PayloadSize - 1) |->
                    IF i = 0 THEN id % 256
                    ELSE IF i = 1 THEN id \div 256
                    ELSE IF i - 1 <= Len(args) THEN args[i - 1]
                    ELSE pkt.payload[i]]]

(***************************************************************************)
(* The stores ulog_detail_enqueue_k makes through dst (ulog.c:210-214,     *)
(* 220-224, ...): id_msb, id_lsb, payload_len and data[0..k-1]; the data   *)
(* bytes beyond k keep what the slot held before.                          *)
(***************************************************************************)
FillPacket(pkt, id, args) ==
    [payload_len |-> ULOG_ID_SIZE + Len(args),
     payload |-> [i \in 0 .. (PayloadSize - 1) |->
                    IF i = 0 THEN id \div 256
                    ELSE IF i = 1 THEN id % 256
                    ELSE IF i - 1 <= Len(args) THEN args[i - 1]
                    ELSE pkt.payload[i]]]

(***************************************************************************)
(* cobs_encode (ulog.c:123-148). CobsLoop is the while loop, one recursion *)
(* per iteration, over the locals read_index, write_index, code_index and  *)
(* code and the array tx_encoded (buf). A store outside tx_encoded is      *)
(* recorded in overflow and leaves buf alone.                              *)
(***************************************************************************)
Store(st, i, v) ==
    IF i \in DOMAIN st.buf
    THEN [st EXCEPT !.buf = [st.buf EXCEPT ![i] = v]]
    ELSE [st EXCEPT !.overflow = TRUE]

RECURSIVE CobsLoop(_, _, _)
CobsLoop(input, length, st) ==
    IF st.read_index < length
    THEN LET input_byte == input[st.read_index] IN
         IF input_byte = COBS_EOF
         THEN CobsLoop(input, length,
                  [Store(st, st.code_index, st.code) EXCEPT
                      !.code_index = st.write_index,
                      !.write_index = st.write_index + 1,
                      !.code = 1,
                      !.read_index = st.read_index + 1])
         ELSE CobsLoop(input, length,
                  [Store(st, st.write_index, input_byte) EXCEPT
                      !.write_index = st.write_index + 1,
                      !.code = st.code + 1,
                      !.read_index = st.read_index + 1])
    ELSE st

\* cobs_encode without the stuffing: the code byte counts the whole body
\* and every byte, the sentinel included, is copied.
cobs_encode_unstuffed(buf, input, length) ==
    [tx_encoded |-> [i \in DOMAIN buf |->
                        IF i = 0 THEN length + 1
                        ELSE IF i <= length THEN input[i - 1]
                        ELSE IF i = length + 1 THEN COBS_EOF
                        ELSE buf[i]],
     encoded_len |-> length + 2,
     overflow |-> FALSE]

\* cobs_encode that stores the last code byte at the start of the frame
\* instead of at code_index.
cobs_encode_code_at_start(buf, input, length) ==
    LET st0 == [read_index |-> 0, write_index |-> 1, code_index |-> 0, code |-> 1,
                buf |-> buf, overflow |-> FALSE]
        st1 == CobsLoop(input, length, st0)
        st2 == Store(st1, 0, st1.code)
        st3 == Store(st2, st2.write_index, COBS_EOF)
    IN  [tx_encoded |-> st3.buf, encoded_len |-> st3.write_index + 1,
         overflow |-> st3.overflow]

\* Result: the new tx_encoded, the returned length, and the overflow flag.
cobs_encode(buf, input, length) ==
    LET st0 == [read_index |-> 0, write_index |-> 1, code_index |-> 0, code |-> 1,
                buf |-> buf, overflow |-> FALSE]
        st1 == CobsLoop(input, length, st0)
        st2 == Store(st1, st1.code_index, st1.code)
        st3 == Store(st2, st2.write_index, COBS_EOF)
    IN  [tx_encoded |-> st3.buf, encoded_len |-> st3.write_index + 1,
         overflow |-> st3.overflow]

\* The frame cobs_encode leaves in tx_encoded for a body given as a sequence.
Frame(body) ==
    LET input == [i \in 0 .. (Len(body) - 1) |-> body[i + 1]]
        e == cobs_encode(TxEncodedInit, input, Len(body))
    IN  Bytes(e.tx_encoded, e.encoded_len)

\* overrun_payload of _ulog_transmit (ulog.c:174-178): id_msb, id_lsb, count.
overrun_payload(overrun) ==
    [i \in 0 .. 2 |->
        IF i = 0 THEN ULOG_ID_OVERRUN \div 256
        ELSE IF i = 1 THEN ULOG_ID_OVERRUN % 256
        ELSE 0]


\* _ulog_transmit reading the slot at log_head instead of log_tail.
ulog_transmit_at_head(ready, head, tail, slots, buf, overrun) ==
    IF ready /\ tail # head
    THEN LET pkt == slots[head]
             e == cobs_encode(buf, pkt.payload, pkt.payload_len)
         IN  [log_tail |-> (tail + 1) % ULOG_QUEUE_SIZE,
              tx_encoded |-> e.tx_encoded,
              buffer_overrun |-> overrun,
              sent |-> Bytes(e.tx_encoded, e.encoded_len),
              kind |-> "user"]
    ELSE IF ready /\ overrun > 0
    THEN LET e == cobs_encode(buf, overrun_payload(overrun), 3)
         IN  [log_tail |-> tail,
              tx_encoded |-> e.tx_encoded,
              buffer_overrun |-> 0,
              sent |-> Bytes(e.tx_encoded, e.encoded_len),
              kind |-> "overrun"]
    ELSE [log_tail |-> tail, tx_encoded |-> buf, buffer_overrun |-> overrun,
          sent |-> << >>, kind |-> "none"]

\* _ulog_transmit that sends the overrun frame and leaves the counter set.
ulog_transmit_keep_overrun(ready, head, tail, slots, buf, overrun) ==
    IF ready /\ tail # head
    THEN LET pkt == slots[tail]
             e == cobs_encode(buf, pkt.payload, pkt.payload_len)
         IN  [log_tail |-> (tail + 1) % ULOG_QUEUE_SIZE,
              tx_encoded |-> e.tx_encoded,
              buffer_overrun |-> overrun,
              sent |-> Bytes(e.tx_encoded, e.encoded_len),
              kind |-> "user"]
    ELSE IF ready /\ overrun > 0
    THEN LET e == cobs_encode(buf, overrun_payload(overrun), 3)
         IN  [log_tail |-> tail,
              tx_encoded |-> e.tx_encoded,
              buffer_overrun |-> overrun,
              sent |-> Bytes(e.tx_encoded, e.encoded_len),
              kind |-> "overrun"]
    ELSE [log_tail |-> tail, tx_encoded |-> buf, buffer_overrun |-> overrun,
          sent |-> << >>, kind |-> "none"]

\* _ulog_transmit that takes every queued packet in one call and hands the
\* sink the frame of the newest one.
ulog_transmit_all(ready, head, tail, slots, buf, overrun) ==
    IF ready /\ tail # head
    THEN LET pkt == slots[(head + ULOG_QUEUE_SIZE - 1) % ULOG_QUEUE_SIZE]
             e == cobs_encode(buf, pkt.payload, pkt.payload_len)
         IN  [log_tail |-> head,
              tx_encoded |-> e.tx_encoded,
              buffer_overrun |-> overrun,
              sent |-> Bytes(e.tx_encoded, e.encoded_len),
              kind |-> "user"]
    ELSE IF ready /\ overrun > 0
    THEN LET e == cobs_encode(buf, overrun_payload(overrun), 3)
         IN  [log_tail |-> tail,
              tx_encoded |-> e.tx_encoded,
              buffer_overrun |-> 0,
              sent |-> Bytes(e.tx_encoded, e.encoded_len),
              kind |-> "overrun"]
    ELSE [log_tail |-> tail, tx_encoded |-> buf, buffer_overrun |-> overrun,
          sent |-> << >>, kind |-> "none"]

\* _ulog_transmit without the test of _ULOG_UART_TX_READY().
ulog_transmit_ignore_ready(ready, head, tail, slots, buf, overrun) ==
    IF tail # head
    THEN LET pkt == slots[tail]
             e == cobs_encode(buf, pkt.payload, pkt.payload_len)
         IN  [log_tail |-> (tail + 1) % ULOG_QUEUE_SIZE,
              tx_encoded |-> e.tx_encoded,
              buffer_overrun |-> overrun,
              sent |-> Bytes(e.tx_encoded, e.encoded_len),
              kind |-> "user"]
    ELSE IF overrun > 0
    THEN LET e == cobs_encode(buf, overrun_payload(overrun), 3)
         IN  [log_tail |-> tail,
              tx_encoded |-> e.tx_encoded,
              buffer_overrun |-> 0,
              sent |-> Bytes(e.tx_encoded, e.encoded_len),
              kind |-> "overrun"]
    ELSE [log_tail |-> tail, tx_encoded |-> buf, buffer_overrun |-> overrun,
          sent |-> << >>, kind |-> "none"]

\* _ulog_transmit that looks at the overrun counter before it looks at the
\* ring.
ulog_transmit_overrun_first(ready, head, tail, slots, buf, overrun) ==
    IF ready /\ overrun > 0
    THEN LET e == cobs_encode(buf, overrun_payload(overrun), 3)
         IN  [log_tail |-> tail,
              tx_encoded |-> e.tx_encoded,
              buffer_overrun |-> 0,
              sent |-> Bytes(e.tx_encoded, e.encoded_len),
              kind |-> "overrun"]
    ELSE IF ready /\ tail # head
    THEN LET pkt == slots[tail]
             e == cobs_encode(buf, pkt.payload, pkt.payload_len)
         IN  [log_tail |-> (tail + 1) % ULOG_QUEUE_SIZE,
              tx_encoded |-> e.tx_encoded,
              buffer_overrun |-> overrun,
              sent |-> Bytes(e.tx_encoded, e.encoded_len),
              kind |-> "user"]
    ELSE [log_tail |-> tail, tx_encoded |-> buf, buffer_overrun |-> overrun,
          sent |-> << >>, kind |-> "none"]

(***************************************************************************)
(* _ulog_transmit (ulog.c:157-192), one call, inside its critical section. *)
(* ready is _ULOG_UART_TX_READY(). Result: the new log_tail, tx_encoded    *)
(* and buffer_overrun, what was handed to _ULOG_PORT_SEND_DATA (sent, the  *)
(* empty sequence when send was not called) and which branch ran.          *)
(***************************************************************************)
ulog_transmit(ready, head, tail, slots, buf, overrun) ==
    IF ready /\ tail # head
    THEN LET pkt == slots[tail]
             e == cobs_encode(buf, pkt.payload, pkt.payload_len)
         IN  [log_tail |-> (tail + 1) % ULOG_QUEUE_SIZE,
              tx_encoded |-> e.tx_encoded,
              buffer_overrun |-> overrun,
              sent |-> Bytes(e.tx_encoded, e.encoded_len),
              kind |-> "user"]
    ELSE IF ready /\ overrun > 0
    THEN LET e == cobs_encode(buf, overrun_payload(overrun), 3)
         IN  [log_tail |-> tail,
              tx_encoded |-> e.tx_encoded,
              buffer_overrun |-> 0,
              sent |-> Bytes(e.tx_encoded, e.encoded_len),
              kind |-> "overrun"]
    ELSE [log_tail |-> tail, tx_encoded |-> buf, buffer_overrun |-> overrun,
          sent |-> << >>, kind |-> "none"]

(***************************************************************************)
(* The port macros.                                                        *)
(***************************************************************************)
\* _ULOG_UART_TX_READY(): the constant true on the FreeRTOS and Linux ports
\* (ulog_freertos_gnu.h:53, ulog_linux_gnu.h:74), the transport's flag on
\* the AVR ports (ulog_asx_gnu.h:37, ulog_avr_none_gnu.h:53).
TxReady(p, ready) == IF p \in {"freertos", "linux"} THEN TRUE ELSE ready

\* The transport's flag after _ULOG_PORT_SEND_DATA: the AVR UART is busy with
\* the frame until it completes; the hosted ports print it and return.
ReadyAfterSend(p, ready) == IF p \in {"freertos", "linux"} THEN ready ELSE FALSE

\* _ULOG_PORT_NOTIFY(): the reactor notification (ulog_asx_gnu.h:31) and the
\* event bit (ulog_freertos_gnu.h:40) stay pending until the drain runs;
\* pthread_cond_signal (ulog_linux_gnu.h:62) wakes the worker only if it is
\* waiting at that moment; the bare-metal port does nothing
\* (ulog_avr_none_gnu.h:41).
PortNotify(p, pending, wpc) ==
    [notified |-> IF p \in {"asx", "freertos"} THEN TRUE ELSE pending,
     worker_pc |-> IF p = "linux" /\ wpc = "waiting" THEN "woken" ELSE wpc]

\* _ULOG_PORT_ENTER_CRITICAL_SECTION() without cli().
EnterCriticalSection_open(p, before) == before

\* The interrupt enable after _ULOG_PORT_ENTER_CRITICAL_SECTION(): the AVR
\* ports execute cli() (ulog_asx_gnu.h:25-26, ulog_avr_none_gnu.h:29-30) and
\* the 8-bit core cpu_irq_save(); the hosted ports lock a mutex or enter an
\* RTOS critical section.
EnterCriticalSection(p, before) ==
    IF p \in {"poll", "asx", "asx8"} THEN FALSE ELSE before

\* The interrupt enable after _ULOG_PORT_EXIT_CRITICAL_SECTION(), given its
\* value before the matching enter. The AVR ports end with sei()
\* (ulog_asx_gnu.h:28-29; ulog_avr_none_gnu.h:35-36 restores SREG and then
\* executes sei()). The hosted ports unlock a mutex or leave an RTOS
\* critical section, and the 8-bit core restores the saved flags
\* (ulog.cpp:104, 160): the interrupt enable is what it was.
ExitCriticalSection(p, before) ==
    IF p \in {"poll", "asx"} THEN TRUE ELSE before

(***************************************************************************)
(* Producers                                                               *)
(***************************************************************************)
\* The identifier of the n-th log call: every call logs from its own
\* call-site; the second one has the sentinel as its low byte.
CallId(n) == 164 + n

\* The enqueue call a log call in progress makes next, if any.
RecordCallPending == phase = "record" /\ record_calls # << >>

\* The id a producer passes: that of the log call in progress, or else the
\* call's own.
CallIds ==
    IF RecordCallPending THEN {Head(record_calls).id} ELSE {CallId(attempts + 1)}

\* The value a producer logs as data[i]: the byte of the log call in
\* progress, or else the sentinel first and a different value at every
\* position.
DataBytes(i) ==
    IF RecordCallPending /\ i < Len(Head(record_calls).data)
    THEN {Head(record_calls).data[i + 1]}
    ELSE IF i = 0 THEN {COBS_EOF} ELSE {i}

\* The entry point that takes n data bytes.
EnqueueFn(n) ==
    IF n = 0 THEN "ulog_detail_enqueue"
    ELSE IF n = 1 THEN "ulog_detail_enqueue_1"
    ELSE IF n = 2 THEN "ulog_detail_enqueue_2"
    ELSE IF n = 3 THEN "ulog_detail_enqueue_3"
    ELSE "ulog_detail_enqueue_4"

\* pthread_mutex_lock that does not wait for the holder.
CriticalSectionFree_unlocked == TRUE

\* The critical section is free (on Linux: the mutex is not held): the
\* producer that enqueues step by step is not inside reserve_log_packet.
CriticalSectionFree == main_enqueue.pc # "reserve"

\* Which calls the producer scenario allows: any call while free running;
\* one packet at a time while the ring position is being advanced; the
\* burst against the held drain; nothing once the drain is released; the
\* next call of the log call in progress; any call from an interrupt handler
\* while interrupts are enabled; any call from a second thread while the
\* mutex is free; any call from whatever context the processor is in; any
\* call between or (from an interrupt handler) during calls of ulog_flush.
ProducerMay(fn) ==
    \/ phase = "free" /\ attempts < MaxAttempts
    \/ /\ phase = "warm"
       /\ producer_fn = fn
       /\ attempts < ULOG_QUEUE_SIZE
       /\ log_head = log_tail
       /\ buffer_overrun = 0
    \/ /\ phase = "burst"
       /\ producer_fn = fn
       /\ attempts - burst_start < MaxBurst
    \/ /\ RecordCallPending
       /\ fn = EnqueueFn(Len(Head(record_calls).data))
    \/ /\ phase = "isr"
       /\ interrupts
       /\ attempts < MaxAttempts
    \/ /\ phase = "threads"
       /\ CriticalSectionFree
       /\ attempts < MaxAttempts
    \/ /\ phase = "nest"
       /\ attempts < MaxAttempts
    \/ /\ phase = "flush"
       /\ attempts < MaxAttempts
    \/ /\ phase = "shutdown"
       /\ attempts < MaxAttempts

\* ulog_detail_enqueue_k (ulog.c:207-283): reserve, fill the slot when one
\* was reserved and, where the function does so, notify.
EnqueueCall(fn, id, args, notifies) ==
    LET r == reserve_log_packet(log_head, log_tail, buffer_overrun)
        n == IF r.reserved /\ notifies
             THEN PortNotify(port, notified, worker_pc)
             ELSE [notified |-> notified, worker_pc |-> worker_pc]
    IN  /\ ProducerMay(fn)
        /\ log_head' = r.log_head
        /\ buffer_overrun' = r.buffer_overrun
        /\ logs_circular_buffer' =
              IF r.reserved
              THEN [logs_circular_buffer EXCEPT ![r.slot] = FillPacket(@, id, args)]
              ELSE logs_circular_buffer
        /\ notified' = n.notified
        /\ worker_pc' = n.worker_pc
        /\ attempts' = attempts + 1
        /\ accepted' = IF r.reserved THEN Append(accepted, CallBody(id, args)) ELSE accepted
        /\ last_call' = [fn |-> fn, reserved |-> r.reserved,
                         notify |-> r.reserved /\ notifies, kind |-> "none"]
        /\ record_calls' = IF RecordCallPending THEN Tail(record_calls) ELSE record_calls
        /\ interrupts' = ExitCriticalSection(port, interrupts)
        /\ UNCHANGED <<log_tail, tx_encoded, started, uart_ready, port, sink>>
        /\ UNCHANGED <<record, flush_pc, main_enqueue, context, stop_thread, deinit_pc>>
        /\ UNCHANGED scenarioVars
        /\ UNCHANGED codecVars

ulog_detail_enqueue ==
    \E id \in CallIds :
        EnqueueCall("ulog_detail_enqueue", id, << >>, FALSE)

ulog_detail_enqueue_1 ==
    \E id \in CallIds, v0 \in DataBytes(0) :
        EnqueueCall("ulog_detail_enqueue_1", id, <<v0>>, TRUE)

ulog_detail_enqueue_2 ==
    \E id \in CallIds, v0 \in DataBytes(0), v1 \in DataBytes(1) :
        EnqueueCall("ulog_detail_enqueue_2", id, <<v0, v1>>, TRUE)

ulog_detail_enqueue_3 ==
    \E id \in CallIds, v0 \in DataBytes(0), v1 \in DataBytes(1), v2 \in DataBytes(2) :
        EnqueueCall("ulog_detail_enqueue_3", id, <<v0, v1, v2>>, TRUE)

ulog_detail_enqueue_4 ==
    \E id \in CallIds, v0 \in DataBytes(0), v1 \in DataBytes(1),
       v2 \in DataBytes(2), v3 \in DataBytes(3) :
        EnqueueCall("ulog_detail_enqueue_4", id, <<v0, v1, v2, v3>>, TRUE)

(***************************************************************************)
(* Drain                                                                   *)
(***************************************************************************)
\* The drain runs once the port's constructor has bound it, and not while
\* the scenario holds it. On the AVR ports it is called from the main
\* context, so not while the main context is inside an enqueue call.
DrainMay ==
    /\ started
    /\ phase \in {"free", "warm", "released", "isr", "nest"}
    /\ main_enqueue.pc = "idle"
    /\ context = "main"

\* The threads of a hosted port run whenever the scenario does not hold the
\* drain.
ThreadMay == phase \in {"free", "warm", "released", "record", "threads"}

\* One call of _ulog_transmit and its effect on the core, the transport and
\* the sink; the caller says what happens to notified, worker_pc and flush_pc.
TransmitCall ==
    LET t == ulog_transmit(TxReady(port, uart_ready), log_head, log_tail,
                           logs_circular_buffer, tx_encoded, buffer_overrun)
    IN  /\ log_tail' = t.log_tail
        /\ tx_encoded' = t.tx_encoded
        /\ buffer_overrun' = t.buffer_overrun
        /\ sink' = IF t.kind = "none" THEN sink ELSE Append(sink, t.sent)
        /\ uart_ready' = IF t.kind = "none" THEN uart_ready
                         ELSE ReadyAfterSend(port, uart_ready)
        /\ last_call' = [fn |-> "_ulog_transmit", reserved |-> FALSE,
                         notify |-> FALSE, kind |-> t.kind]
        /\ interrupts' = ExitCriticalSection(port, interrupts)
        /\ UNCHANGED <<log_head, logs_circular_buffer, started, port, attempts, accepted>>
        /\ UNCHANGED <<main_enqueue, context, stop_thread, deinit_pc>>
        /\ UNCHANGED scenarioVars
        /\ UNCHANGED recordVars
        /\ UNCHANGED codecVars

\* _ulog_init (ulog.c:197-199), run by the port's constructor: hands the
\* first four bytes of tx_encoded to the sink. On the Linux port the
\* constructor has started the worker thread before (ulog_linux.cpp:67-70).
ulog_init ==
    /\ ~started
    /\ port = "linux" => worker_pc # "none"
    /\ started' = TRUE
    /\ sink' = Append(sink, Bytes(tx_encoded, 4))
    /\ uart_ready' = ReadyAfterSend(port, uart_ready)
    /\ last_call' = [fn |-> "_ulog_init", reserved |-> FALSE,
                     notify |-> FALSE, kind |-> "start"]
    /\ UNCHANGED <<notified, worker_pc, port, attempts, accepted>>
    /\ UNCHANGED coreVars
    /\ UNCHANGED scenarioVars
    /\ UNCHANGED recordVars
    /\ UNCHANGED contextVars
    /\ UNCHANGED codecVars

\* The bare-metal port: the application polls (_ulog_on_transmit,
\* ulog_avr_none_gnu.cpp:72-75).
ulog_on_transmit ==
    /\ port = "poll"
    /\ DrainMay
    /\ TransmitCall
    /\ UNCHANGED <<notified, worker_pc, flush_pc>>

\* The UART finishes the frame it was given. On the ASX ports the completion
\* notifies the reactor handle (ulog_asx.cpp:61, ulog.cpp:177).
send_complete ==
    /\ port \in {"poll", "asx", "asx8"}
    /\ ~uart_ready
    /\ uart_ready' = TRUE
    /\ notified' = IF port \in {"asx", "asx8"} THEN TRUE ELSE notified
    /\ UNCHANGED <<started, worker_pc, port>>
    /\ UNCHANGED coreVars
    /\ UNCHANGED obsVars
    /\ UNCHANGED scenarioVars
    /\ UNCHANGED recordVars
    /\ UNCHANGED contextVars
    /\ UNCHANGED codecVars

(***************************************************************************)
(* Initial state: static storage as the program image sets it, before any  *)
(* constructor has run.                                                    *)
(***************************************************************************)
\* No log call and no enqueue call is in progress, nobody is in ulog_flush,
\* and the producer code runs in the main context with interrupts enabled.
NoRecord == [n |-> 0, id |-> 0, k |-> 0, start |-> 0, att |-> 0]
MainIdle == [pc |-> "idle", fn |-> "none", id |-> 0, args |-> << >>,
             head |-> 0, overrun |-> 0, saved |-> TRUE, slot |-> 0, step |-> 0]

InitContext ==
    /\ record_calls = << >>
    /\ record = NoRecord
    /\ flush_pc = "idle"
    /\ main_enqueue = MainIdle
    /\ interrupts = TRUE
    /\ context = "main"
    /\ stop_thread = FALSE
    /\ deinit_pc = "idle"

InitProgram ==
    /\ log_head = 0
    /\ log_tail = 0
    /\ logs_circular_buffer = [i \in SlotIndex |-> ZeroPacket]
    /\ tx_encoded = TxEncodedInit
    /\ buffer_overrun = 0
    /\ started = FALSE
    /\ uart_ready = TRUE
    /\ notified = FALSE
    /\ worker_pc = "none"
    /\ sink = << >>
    /\ attempts = 0
    /\ accepted = << >>
    /\ last_call = [fn |-> "none", reserved |-> FALSE, notify |-> FALSE, kind |-> "none"]
    /\ burst_start = 0
    /\ codec_len = 0
    /\ InitContext

InitCore ==
    /\ InitProgram
    /\ call_in = << >>
    /\ call_out = << >>

Init ==
    /\ InitCore
    /\ codec_in = << >>
    /\ port = "poll"
    /\ phase = "free"
    /\ producer_fn = "any"

Next ==
    \/ ulog_init
    \/ ulog_detail_enqueue
    \/ ulog_detail_enqueue_1
    \/ ulog_detail_enqueue_2
    \/ ulog_detail_enqueue_3
    \/ ulog_detail_enqueue_4
    \/ ulog_on_transmit
    \/ send_complete

Spec == Init /\ [][Next]_vars


(***************************************************************************)
(* Reading the sink                                                        *)
(***************************************************************************)
\* The frames of the two reserved identifiers, by their (unstuffed) id bytes.
IsStartFrame(f) ==
    Len(f) >= 3 /\ f[2] = ULOG_ID_START \div 256 /\ f[3] = ULOG_ID_START % 256

IsOverrunFrame(f) ==
    Len(f) >= 3 /\ f[2] = ULOG_ID_OVERRUN \div 256 /\ f[3] = ULOG_ID_OVERRUN % 256

IsUserFrame(f) == ~IsStartFrame(f) /\ ~IsOverrunFrame(f)

UserFrames == SelectSeq(sink, IsUserFrame)

\* Number of packets in the ring, and the j-th of them counted from the tail.
Queued == (log_head + ULOG_QUEUE_SIZE - log_tail) % ULOG_QUEUE_SIZE
QueuedPacket(j) == logs_circular_buffer[(log_tail + j) % ULOG_QUEUE_SIZE]

\* An enqueue attempt made in this state is rejected.
QueueFull == (log_head + 1) % ULOG_QUEUE_SIZE = log_tail
Rejecting == QueueFull \/ buffer_overrun > 0

\* The step is one enqueue call / one call that handed a frame to the sink.
EnqueueStep == attempts' = attempts + 1
SendStep == Len(sink') = Len(sink) + 1

(***************************************************************************)
(* C1 -- FIFO. The user frames handed to the sink are, in order, the       *)
(* frames of the first accepted packets, and the accepted packets not yet  *)
(* handed over are exactly the packets in the ring, oldest at the tail: no *)
(* accepted packet is reordered, duplicated or skipped.                    *)
(***************************************************************************)
C1_Fifo ==
    LET n == Len(UserFrames) IN
    /\ n + Queued = Len(accepted)
    /\ \A i \in 1 .. n : UserFrames[i] = Frame(accepted[i])
    /\ \A j \in 0 .. (Queued - 1) : Body(QueuedPacket(j)) = accepted[n + 1 + j]

\* Two packets delivered, a rejected call behind them, and the ring wrapped.
C1_Witness ==
    /\ Len(UserFrames) >= 2
    /\ Len(accepted) < attempts
    /\ Queued >= 1
    /\ log_head < log_tail

(***************************************************************************)
(* C4 -- the overrun frame carries the overrun counter. Whenever a call    *)
(* hands the overrun frame to the sink, its payload byte is the value the  *)
(* counter had at that moment, and the counter is cleared by the same call.*)
(***************************************************************************)
C4_OverrunFrameCarriesCounter ==
    [][(SendStep /\ last_call'.kind = "overrun")
         => /\ sink'[Len(sink')] = Frame(<<ULOG_ID_OVERRUN \div 256, ULOG_ID_OVERRUN % 256,
                                           buffer_overrun>>)
            /\ buffer_overrun' = 0]_vars

(***************************************************************************)
(* C5 -- overrun latch. While the overrun counter is non-zero no enqueue   *)
(* attempt reserves a slot: it leaves head alone and only                  *)
(* saturate-increments the counter, whether or not the drain has freed     *)
(* slots; and the counter returns to zero only by the drain emitting the   *)
(* overrun frame.                                                          *)
(***************************************************************************)
C5_OverrunLatch ==
    [][/\ (EnqueueStep /\ buffer_overrun > 0)
            => /\ ~last_call'.reserved
               /\ log_head' = log_head
               /\ buffer_overrun' = Min(buffer_overrun + 1, 255)
       /\ (buffer_overrun > 0 /\ buffer_overrun' = 0)
            => /\ SendStep
               /\ IsOverrunFrame(sink'[Len(sink')])]_vars

\* The last call was an enqueue rejected by the latch while a slot was free.
C5_Witness ==
    /\ last_call.fn \in EnqueueFns
    /\ ~last_call.reserved
    /\ buffer_overrun >= 2
    /\ ~QueueFull
    /\ Len(UserFrames) >= 1

(***************************************************************************)
(* C24 -- when the overrun frame is sent. A step hands the overrun frame   *)
(* to the sink only from a state in which the transport is ready, the ring *)
(* is empty and buffer_overrun is non-zero; the step takes no packet from  *)
(* the ring.                                                               *)
(***************************************************************************)
C24_OverrunOnlyWhenDrained ==
    [][(SendStep /\ IsOverrunFrame(sink'[Len(sink')]))
          => /\ TxReady(port, uart_ready)
             /\ log_head = log_tail
             /\ buffer_overrun > 0
             /\ log_tail' = log_tail
             /\ last_call'.fn = "_ulog_transmit"]_vars

\* The overrun frame has just been sent, after every accepted packet, and
\* the UART is busy with it.
C24_Witness ==
    /\ last_call.fn = "_ulog_transmit"
    /\ last_call.kind = "overrun"
    /\ IsOverrunFrame(sink[Len(sink)])
    /\ ~uart_ready
    /\ Len(UserFrames) = Len(accepted)
    /\ Len(accepted) = ULOG_QUEUE_SIZE - 1
    /\ attempts > Len(accepted)

(***************************************************************************)
(* C33 -- ring buffer invariant. log_head and log_tail stay in 0 .. Q - 1; *)
(* the packets accepted and not yet sent number (head - tail) mod Q, at    *)
(* most Q - 1, and none exactly when head = tail. An enqueue made with the *)
(* latch clear is turned away exactly when (head + 1) mod Q = tail, and    *)
(* otherwise moves head by one. The tail moves only by one, only from a    *)
(* state with head # tail, and only in a step that sends a user frame.     *)
(***************************************************************************)
C33_RingInvariant ==
    /\ [](/\ log_head \in 0 .. (ULOG_QUEUE_SIZE - 1)
          /\ log_tail \in 0 .. (ULOG_QUEUE_SIZE - 1)
          /\ Len(accepted) - Len(UserFrames) = (log_head + ULOG_QUEUE_SIZE - log_tail) % ULOG_QUEUE_SIZE
          /\ Len(accepted) - Len(UserFrames) <= ULOG_QUEUE_SIZE - 1
          /\ (Len(accepted) = Len(UserFrames)) <=> (log_head = log_tail))
    /\ [][/\ (EnqueueStep /\ buffer_overrun = 0)
                => /\ (~last_call'.reserved) <=> ((log_head + 1) % ULOG_QUEUE_SIZE = log_tail)
                   /\ (~last_call'.reserved) <=> (Len(accepted) - Len(UserFrames) = ULOG_QUEUE_SIZE - 1)
                   /\ last_call'.reserved => log_head' = (log_head + 1) % ULOG_QUEUE_SIZE
                   /\ (~last_call'.reserved) => log_head' = log_head
                   /\ log_tail' = log_tail
          /\ (log_tail' # log_tail)
                => /\ log_tail # log_head
                   /\ log_tail' = (log_tail + 1) % ULOG_QUEUE_SIZE
                   /\ log_head' = log_head
                   /\ Len(UserFrames') = Len(UserFrames) + 1]_vars

\* The ring is full with its indices wrapped (head behind tail), and the
\* enqueue made in that state has just been turned away.
C33_Witness ==
    /\ phase = "free"
    /\ log_head < log_tail
    /\ (log_head + 1) % ULOG_QUEUE_SIZE = log_tail
    /\ Len(accepted) - Len(UserFrames) = ULOG_QUEUE_SIZE - 1
    /\ last_call.fn \in EnqueueFns
    /\ ~last_call.reserved
    /\ buffer_overrun = 1

(***************************************************************************)
(* C25 -- overrun recovery. The step that sends the overrun frame leaves   *)
(* buffer_overrun at 0 and the ring empty; the enqueue attempt that comes  *)
(* next is accepted, as the only packet in the ring; and an attempt is     *)
(* accepted after an earlier one was dropped only if an overrun frame has  *)
(* been sent.                                                              *)
(***************************************************************************)
C25_OverrunRecovery ==
    /\ [][/\ (SendStep /\ IsOverrunFrame(sink'[Len(sink')]))
                => (buffer_overrun' = 0 /\ log_head' = log_tail')
          /\ (EnqueueStep /\ last_call.kind = "overrun")
                => (last_call'.reserved /\ Queued' = 1 /\ buffer_overrun' = 0)]_vars
    /\ []((last_call.fn \in EnqueueFns /\ last_call.reserved /\ attempts > Len(accepted))
             => \E o \in 1 .. Len(sink) : IsOverrunFrame(sink[o]))

\* Logging has resumed: the ring was filled, an attempt was dropped, the
\* drain sent the packets and the overrun frame, and the attempt after that
\* was accepted.
C25_Witness ==
    /\ last_call.fn \in EnqueueFns
    /\ last_call.reserved
    /\ Len(accepted) = ULOG_QUEUE_SIZE
    /\ attempts = ULOG_QUEUE_SIZE + 1
    /\ Queued = 1
    /\ buffer_overrun = 0
    /\ IsOverrunFrame(sink[Len(sink)])

(***************************************************************************)
(* C8 -- every successful enqueue notifies. A call that got a slot has     *)
(* called the port's notify.                                               *)
(***************************************************************************)
C8_AcceptedImpliesNotified ==
    (last_call.fn \in EnqueueFns /\ last_call.reserved) => last_call.notify

(***************************************************************************)
(* C9 -- drop-newest. An enqueue attempt made while the ring is full or    *)
(* the latch is set reserves nothing and leaves head, tail and every slot  *)
(* unchanged; only the overrun counter changes (by one).                   *)
(***************************************************************************)
C9_DropNewest ==
    [][(EnqueueStep /\ Rejecting)
         => /\ ~last_call'.reserved
            /\ log_head' = log_head
            /\ log_tail' = log_tail
            /\ logs_circular_buffer' = logs_circular_buffer
            /\ tx_encoded' = tx_encoded
            /\ sink' = sink
            /\ accepted' = accepted
            /\ buffer_overrun' = buffer_overrun + 1]_vars

\* The last call was rejected by a full ring, which still holds its packets.
C9_Witness ==
    /\ last_call.fn \in EnqueueFns
    /\ ~last_call.reserved
    /\ QueueFull
    /\ buffer_overrun = 1
    /\ \A j \in 0 .. (Queued - 1) : QueuedPacket(j).payload_len >= ULOG_ID_SIZE


\* The step is one call of _ulog_transmit (the call may change nothing): the
\* last call made is _ulog_transmit and the step is not the UART completing.
TransmitStep ==
    /\ last_call'.fn = "_ulog_transmit"
    /\ attempts' = attempts
    /\ ~(uart_ready' /\ ~uart_ready)

(***************************************************************************)
(* C12 -- one frame per invocation. Every call of _ulog_transmit hands at  *)
(* most one frame to the sink and advances tail by at most one; with a     *)
(* transport that is busy after every send, a call made once the transport *)
(* is ready again delivers exactly one more packet, the oldest queued one, *)
(* however many are queued, and leaves the transport busy, so that no      *)
(* second frame follows before the next completion.                        *)
(***************************************************************************)
C12_OneFramePerInvocation ==
    [][TransmitStep
         => /\ Len(sink') <= Len(sink) + 1
            /\ log_tail' \in {log_tail, (log_tail + 1) % ULOG_QUEUE_SIZE}
            /\ (uart_ready /\ Queued > 0)
                 => /\ sink' = Append(sink, Frame(Body(QueuedPacket(0))))
                    /\ log_tail' = (log_tail + 1) % ULOG_QUEUE_SIZE
                    /\ ~uart_ready'
            /\ SendStep => (uart_ready /\ ~uart_ready')]_vars

\* Two packets were queued; one went out, the transport completed, the next
\* call sent one more, and a third packet is still waiting for a completion.
C12_Witness ==
    /\ last_call.fn = "_ulog_transmit"
    /\ last_call.kind = "user"
    /\ Len(UserFrames) >= 2
    /\ Queued >= 1
    /\ ~uart_ready

(***************************************************************************)
(* C13 -- transport not ready. A call of _ulog_transmit made while         *)
(* tx_ready() is false does not call send and leaves head, tail, the       *)
(* overrun counter, the slots and tx_encoded unchanged: the packet at the  *)
(* tail stays there for the call that follows the completion.              *)
(***************************************************************************)
C13_NotReadyChangesNothing ==
    [][(TransmitStep /\ ~uart_ready)
         => /\ sink' = sink
            /\ log_head' = log_head
            /\ log_tail' = log_tail
            /\ buffer_overrun' = buffer_overrun
            /\ logs_circular_buffer' = logs_circular_buffer
            /\ tx_encoded' = tx_encoded
            /\ last_call'.kind = "none"
            /\ ~uart_ready']_vars

\* The last call was _ulog_transmit with the transport busy and a packet
\* queued: it sent nothing and the packet is still at the tail.
C13_Witness ==
    /\ last_call.fn = "_ulog_transmit"
    /\ last_call.kind = "none"
    /\ ~uart_ready
    /\ Queued >= 1
    /\ Len(UserFrames) >= 1
    /\ Body(QueuedPacket(0)) = accepted[Len(UserFrames) + 1]


(***************************************************************************)
(* The overrun scenario (spec E5; test harness "drain held"): the producer *)
(* first logs some packets that are drained one by one, which moves the    *)
(* ring position; then the drain is held and the producer makes a burst of *)
(* calls; then the drain is released and the producer is silent.           *)
(***************************************************************************)
hold_drain ==
    /\ phase = "warm"
    /\ started
    /\ log_head = log_tail
    /\ buffer_overrun = 0
    /\ phase' = "burst"
    /\ burst_start' = attempts
    /\ UNCHANGED producer_fn
    /\ UNCHANGED recordVars
    /\ UNCHANGED contextVars
    /\ UNCHANGED coreVars
    /\ UNCHANGED portVars
    /\ UNCHANGED obsVars
    /\ UNCHANGED codecVars

release_drain ==
    /\ phase = "burst"
    /\ phase' = "released"
    /\ UNCHANGED <<producer_fn, burst_start>>
    /\ UNCHANGED recordVars
    /\ UNCHANGED contextVars
    /\ UNCHANGED coreVars
    /\ UNCHANGED portVars
    /\ UNCHANGED obsVars
    /\ UNCHANGED codecVars

InitOverrun ==
    /\ InitCore
    /\ codec_in = << >>
    /\ port = "poll"
    /\ phase = "warm"
    /\ producer_fn \in EnqueueFns

NextOverrun ==
    \/ ulog_init
    \/ ulog_detail_enqueue
    \/ ulog_detail_enqueue_1
    \/ ulog_detail_enqueue_2
    \/ ulog_detail_enqueue_3
    \/ ulog_detail_enqueue_4
    \/ ulog_on_transmit
    \/ send_complete
    \/ hold_drain
    \/ release_drain

SpecOverrun == InitOverrun /\ [][NextOverrun]_vars

\* Calls made since the drain was held, and the frames sent since then (at
\* the hold the sink held the start frame and one frame per earlier call).
BurstCalls == attempts - burst_start
SentSinceHold == SubSeq(sink, burst_start + 2, Len(sink))

\* The id bytes of the k-th call of the burst.
BurstId(k) == <<CallId(burst_start + k) \div 256, CallId(burst_start + k) % 256>>

(***************************************************************************)
(* C2 -- overrun accounting. With the drain held from an empty ring, after *)
(* Q + n enqueue attempts (n >= 0) the ring holds exactly the packets of   *)
(* the first Q - 1 attempts, in order, and the overrun counter is          *)
(* min(n + 1, 255).                                                        *)
(***************************************************************************)
C2_OverrunAccounting ==
    (phase = "burst" /\ BurstCalls >= ULOG_QUEUE_SIZE)
      => /\ Queued = ULOG_QUEUE_SIZE - 1
         /\ Len(accepted) = burst_start + ULOG_QUEUE_SIZE - 1
         /\ \A j \in 0 .. (ULOG_QUEUE_SIZE - 2) :
               /\ Body(QueuedPacket(j)) = accepted[burst_start + 1 + j]
               /\ SubSeq(Body(QueuedPacket(j)), 1, 2) = BurstId(j + 1)
         /\ buffer_overrun = Min(BurstCalls - ULOG_QUEUE_SIZE + 1, 255)

\* A burst long enough to saturate the counter, from a moved ring position.
C2_Witness ==
    /\ phase = "burst"
    /\ burst_start >= 1
    /\ BurstCalls - ULOG_QUEUE_SIZE + 1 > 255
    /\ buffer_overrun = 255

(***************************************************************************)
(* C23 -- the overrun counter saturates. buffer_overrun never exceeds 255, *)
(* and an enqueue attempt made with the counter set never lowers it: the   *)
(* attempt made at 255 leaves it at 255, reserves nothing and leaves       *)
(* log_head alone, so a long burst does not release the latch.             *)
(***************************************************************************)
C23_CounterSaturates ==
    /\ [](buffer_overrun \in 0 .. 255)
    /\ [][(EnqueueStep /\ buffer_overrun > 0)
             => /\ buffer_overrun' >= buffer_overrun
                /\ (buffer_overrun = 255 => buffer_overrun' = 255)
                /\ ~last_call'.reserved
                /\ log_head' = log_head
                /\ logs_circular_buffer' = logs_circular_buffer]_vars

\* The drain is held and two attempts have been made at the saturated
\* counter: 257 attempts were dropped and the counter reads 255.
C23_Witness ==
    /\ phase = "burst"
    /\ BurstCalls = ULOG_QUEUE_SIZE + 256
    /\ buffer_overrun = 255
    /\ ~last_call.reserved
    /\ Queued = ULOG_QUEUE_SIZE - 1

(***************************************************************************)
(* C3 -- releasing the drain. After a burst of at least Q attempts against *)
(* the held drain, the released drain hands the sink the Q - 1 queued user *)
(* frames in enqueue order, then one overrun frame, and nothing after it:  *)
(* the frames sent so far are one per packet taken from the ring plus the  *)
(* overrun frame once the counter is cleared.                              *)
(***************************************************************************)
C3_ReleaseDrain ==
    (phase = "released" /\ BurstCalls >= ULOG_QUEUE_SIZE)
      => LET out == SentSinceHold IN
         /\ Len(sink) >= burst_start + 1
         /\ Len(out) <= ULOG_QUEUE_SIZE
         /\ Len(out) = (ULOG_QUEUE_SIZE - 1 - Queued) + (IF buffer_overrun = 0 THEN 1 ELSE 0)
         /\ \A i \in 1 .. Len(out) :
               IF i <= ULOG_QUEUE_SIZE - 1
               THEN out[i] = Frame(accepted[burst_start + i]) /\ IsUserFrame(out[i])
               ELSE IsOverrunFrame(out[i])

\* Everything was sent, and a further call with the transport ready sent nothing.
C3_Witness ==
    /\ phase = "released"
    /\ BurstCalls > ULOG_QUEUE_SIZE
    /\ burst_start >= 1
    /\ Len(SentSinceHold) = ULOG_QUEUE_SIZE
    /\ IsOverrunFrame(sink[Len(sink)])
    /\ uart_ready
    /\ last_call.fn = "_ulog_transmit"
    /\ last_call.kind = "none"


(***************************************************************************)
(* The encoder on its own: cobs_encode applied once to a body of 0 to 6    *)
(* bytes, into tx_encoded as the program image leaves it.                  *)
(***************************************************************************)
CodecBodies == UNION {[1 .. n -> CodecBytes] : n \in 0 .. PayloadSize}

codec_encode ==
    /\ phase = "codec"
    /\ codec_len = 0
    /\ LET input == [i \in 0 .. (Len(codec_in) - 1) |-> codec_in[i + 1]]
           e == cobs_encode(tx_encoded, input, Len(codec_in))
       IN  /\ tx_encoded' = e.tx_encoded
           /\ codec_len' = e.encoded_len
    /\ UNCHANGED <<log_head, log_tail, logs_circular_buffer, buffer_overrun, codec_in,
                 call_in, call_out>>
    /\ UNCHANGED portVars
    /\ UNCHANGED obsVars
    /\ UNCHANGED scenarioVars
    /\ UNCHANGED recordVars
    /\ UNCHANGED contextVars

InitCodec ==
    /\ InitCore
    /\ codec_in \in CodecBodies
    /\ port = "poll"
    /\ phase = "codec"
    /\ producer_fn = "any"

NextCodec == codec_encode

SpecCodec == InitCodec /\ [][NextCodec]_vars

\* The frame the encoder left, once it has run.
CodecFrame == Bytes(tx_encoded, codec_len)

(***************************************************************************)
(* C10 -- codec framing. The frame cobs_encode produces for a body of 0 to *)
(* 6 bytes holds the sentinel 0xA6 exactly once, as its last byte: no code *)
(* byte and no copied byte before it is the sentinel.                      *)
(***************************************************************************)
C10_CodecFraming ==
    (codec_len > 0)
      => /\ CodecFrame[codec_len] = COBS_EOF
         /\ \A i \in 1 .. (codec_len - 1) : CodecFrame[i] # COBS_EOF

\* A six-byte body that starts and ends with the sentinel has been encoded.
C10_Witness ==
    /\ codec_len = TxSize
    /\ Len(codec_in) = PayloadSize
    /\ codec_in[1] = COBS_EOF
    /\ codec_in[PayloadSize] = COBS_EOF


(***************************************************************************)
(* The reference decoder of the host side (spec, "Decoding"): read a code  *)
(* byte c; copy the c - 1 bytes that follow; if c < 255 and more input     *)
(* follows, emit a sentinel; stop at the sentinel. pos is the position of  *)
(* the next code byte. A frame the decoder cannot read (a zero code byte,  *)
(* or a block that runs past the end) decodes to Malformed.                *)
(***************************************************************************)
Malformed == <<256>>

RECURSIVE cobs_decode_from(_, _)
cobs_decode_from(frame, pos) ==
    IF pos > Len(frame) THEN Malformed
    ELSE LET c == frame[pos] IN
         IF c = COBS_EOF THEN << >>
         ELSE IF c = 0 \/ pos + c > Len(frame) THEN Malformed
         ELSE LET block == SubSeq(frame, pos + 1, pos + c - 1)
                  more == frame[pos + c] # COBS_EOF
                  rest == cobs_decode_from(frame, pos + c)
              IN  IF rest = Malformed THEN Malformed
                  ELSE block \o (IF c < 255 /\ more THEN <<COBS_EOF>> ELSE << >>) \o rest

cobs_decode(frame) == cobs_decode_from(frame, 1)

(***************************************************************************)
(* C11 -- codec round-trip. For every body of 0 to 6 bytes, the reference  *)
(* decoder applied to the frame cobs_encode produced yields exactly the    *)
(* original body bytes.                                                    *)
(***************************************************************************)
C11_CodecRoundTrip ==
    (codec_len > 0) => cobs_decode(CodecFrame) = codec_in

\* A six-byte body with the sentinel first, twice in the middle and last has
\* been encoded and decoded.
C11_Witness ==
    /\ codec_len > 0
    /\ Len(codec_in) = PayloadSize
    /\ codec_in[1] = COBS_EOF /\ codec_in[3] = COBS_EOF
    /\ codec_in[4] = COBS_EOF /\ codec_in[PayloadSize] = COBS_EOF
    /\ codec_in[2] = 0 /\ codec_in[5] = 255
    /\ cobs_decode(CodecFrame) = codec_in


(***************************************************************************)
(* The ports that schedule the drain themselves. The specification starts  *)
(* after the port's constructor: the drain is bound, _ulog_init has handed *)
(* the start frame to the sink (on the ASX port the UART is still sending  *)
(* it) and, on Linux, the worker thread has been created. The producers    *)
(* log through the entry points that notify.                               *)
(***************************************************************************)
\* The ASX reactor runs the handler bound to the handle once per pending
\* notification (ulog_asx.cpp:57).
asx_reactor ==
    /\ port = "asx"
    /\ DrainMay
    /\ notified
    /\ notified' = FALSE
    /\ TransmitCall
    /\ UNCHANGED <<worker_pc, flush_pc>>

\* vApplicationIdleHook (ulog_freertos.cpp:40-51): when the event bit is
\* set, clear it and call _ulog_transmit once; otherwise do nothing.
vApplicationIdleHook ==
    /\ port = "freertos"
    /\ DrainMay
    /\ notified
    /\ notified' = FALSE
    /\ TransmitCall
    /\ UNCHANGED <<worker_pc, flush_pc>>

\* The worker at the top of its loop without the test of the stop flag
\* before it waits.
WorkerTop_no_check(stop) == "waiting"

\* Where the worker goes from the top of its loop (ulog_linux.cpp:44-52):
\* out of the loop when the stop flag is set, into pthread_cond_wait
\* otherwise.
WorkerTop(stop) == IF stop THEN "exited" ELSE "waiting"

\* _ulog_tx_thread_func (ulog_linux.cpp:41-65), from the top of the loop to
\* pthread_cond_wait: lock, test the stop flag, wait (the mutex is released)
\* or unlock and leave the loop.
linux_worker_wait ==
    /\ port = "linux"
    /\ worker_pc = "top"
    /\ worker_pc' = WorkerTop(stop_thread)
    /\ UNCHANGED <<started, uart_ready, notified, port>>
    /\ UNCHANGED coreVars
    /\ UNCHANGED obsVars
    /\ UNCHANGED scenarioVars
    /\ UNCHANGED recordVars
    /\ UNCHANGED contextVars
    /\ UNCHANGED codecVars

\* The worker after a signal: stop flag clear, unlock, one call of
\* _ulog_transmit, and back to the top of the loop. The thread runs from
\* pthread_create on, whether or not the constructor has reached _ulog_init.
linux_worker_transmit ==
    /\ port = "linux"
    /\ ThreadMay
    /\ CriticalSectionFree
    /\ worker_pc = "woken"
    /\ worker_pc' = "top"
    /\ TransmitCall
    /\ UNCHANGED <<notified, flush_pc>>

InitPorts ==
    /\ log_head = 0
    /\ log_tail = 0
    /\ logs_circular_buffer = [i \in SlotIndex |-> ZeroPacket]
    /\ tx_encoded = TxEncodedInit
    /\ buffer_overrun = 0
    /\ port \in {"asx", "freertos", "linux"}
    /\ started = TRUE
    /\ uart_ready = ReadyAfterSend(port, TRUE)
    /\ notified = FALSE
    /\ worker_pc = IF port = "linux" THEN "top" ELSE "none"
    /\ sink = <<Bytes(TxEncodedInit, 4)>>
    /\ attempts = 0
    /\ accepted = << >>
    /\ last_call = [fn |-> "_ulog_init", reserved |-> FALSE, notify |-> FALSE, kind |-> "start"]
    /\ phase = "free"
    /\ producer_fn = "any"
    /\ burst_start = 0
    /\ codec_in = << >>
    /\ codec_len = 0
    /\ call_in = << >>
    /\ call_out = << >>
    /\ InitContext

NextPorts ==
    \/ ulog_detail_enqueue_1
    \/ ulog_detail_enqueue_2
    \/ ulog_detail_enqueue_3
    \/ ulog_detail_enqueue_4
    \/ send_complete
    \/ asx_reactor
    \/ vApplicationIdleHook
    \/ linux_worker_wait
    \/ linux_worker_transmit

\* The drain contexts are scheduled fairly and the UART completes each frame.
SpecPorts ==
    /\ InitPorts
    /\ [][NextPorts]_vars
    /\ WF_vars(send_complete)
    /\ WF_vars(asx_reactor)
    /\ WF_vars(vApplicationIdleHook)
    /\ WF_vars(linux_worker_wait)
    /\ WF_vars(linux_worker_transmit)

\* No call of _ulog_transmit is pending: none will be made until a producer
\* notifies again. ASX: no notification and no frame whose completion would
\* notify; FreeRTOS: the event bit is clear; Linux: the worker is waiting
\* for a signal or about to.
DrainIdle ==
    \/ port = "asx" /\ ~notified /\ uart_ready
    \/ port = "freertos" /\ ~notified
    \/ port = "linux" /\ worker_pc \in {"top", "waiting"}

(***************************************************************************)
(* C6 -- no accepted packet is stranded. The drain goes idle only when the *)
(* ring is empty and the overrun counter is zero, so that every accepted   *)
(* packet reaches the sink without a later enqueue or a flush.             *)
(***************************************************************************)
C6_IdleOnlyWhenDrained ==
    DrainIdle => (log_head = log_tail /\ buffer_overrun = 0)

(***************************************************************************)
(* C7 -- overrun is reported on recovery. Whenever the overrun counter is  *)
(* non-zero a call of the drain is pending, so that the overrun frame is   *)
(* emitted and the counter cleared without any further enqueue (a rejected *)
(* enqueue does not notify).                                               *)
(***************************************************************************)
C7_OverrunHasDrainPending ==
    (buffer_overrun > 0) => ~DrainIdle


(***************************************************************************)
(* Start-up of the Linux port. The constructor _ulog_linux_init            *)
(* (ulog_linux.cpp:37-71) creates the worker thread and then calls         *)
(* _ulog_init; producers (earlier constructors, other threads) may log     *)
(* before, between and after the two.                                      *)
(***************************************************************************)
\* _ulog_linux_init up to and including pthread_create (ulog_linux.cpp:67).
ulog_linux_init ==
    /\ port = "linux"
    /\ ~started
    /\ worker_pc = "none"
    /\ worker_pc' = "top"
    /\ UNCHANGED <<started, uart_ready, notified, port>>
    /\ UNCHANGED coreVars
    /\ UNCHANGED obsVars
    /\ UNCHANGED scenarioVars
    /\ UNCHANGED recordVars
    /\ UNCHANGED contextVars
    /\ UNCHANGED codecVars

InitStartup ==
    /\ InitCore
    /\ codec_in = << >>
    /\ port = "linux"
    /\ phase = "free"
    /\ producer_fn = "any"

NextStartup ==
    \/ ulog_linux_init
    \/ ulog_init
    \/ ulog_detail_enqueue
    \/ ulog_detail_enqueue_1
    \/ ulog_detail_enqueue_2
    \/ ulog_detail_enqueue_3
    \/ ulog_detail_enqueue_4
    \/ linux_worker_wait
    \/ linux_worker_transmit

SpecStartup == InitStartup /\ [][NextStartup]_vars

(***************************************************************************)
(* C15 -- the start frame comes first. The first frame handed to the sink  *)
(* is the start-of-stream frame (id 0x7FFE, no payload: 03 7F FE A6); no   *)
(* user frame and no overrun frame precedes it, also when packets were     *)
(* enqueued before the port's initialisation.                              *)
(***************************************************************************)
C15_StartFrameFirst ==
    (Len(sink) >= 1) => (sink[1] = Bytes(TxEncodedInit, 4))


(***************************************************************************)
(* Log calls. The ULOG macro (ulog.h:526-551) turns one call into a        *)
(* sequence of calls of ulog_detail_enqueue_k: one per argument, and for a *)
(* string argument one per run of four characters. An argument is a record *)
(* [type, value]: an unsigned integer of one, two or four bytes, or a      *)
(* string given as the sequence of its (non-zero) characters.              *)
(***************************************************************************)
ULOG_ID_CONTINUATION == 32768

\* _ULOG_MAX_STR_LENGTH (ulog.h:137-139), at its default.
ULOG_MAX_STR_LENGTH == 16

\* Log calls made in the specification of log calls.
MaxRecords == 2

U8(v) == [type |-> "u8", value |-> v]
U16(v) == [type |-> "u16", value |-> v]
U32(v) == [type |-> "u32", value |-> v]
Str(chars) == [type |-> "str", value |-> chars]

\* Signed integers, bool and float. A 32-bit value is carried as the integer
\* of -2^31 .. 2^31 - 1 that has its 32 bits (the uint32_t 0xDEADBEEF as
\* -559038737), a float as its bit pattern. A float also carries the byte
\* order of the target the call is compiled for.
S8(v) == [type |-> "s8", value |-> v]
Bool(v) == [type |-> "bool", value |-> v]
S16(v) == [type |-> "s16", value |-> v]
S32(v) == [type |-> "s32", value |-> v]
Float(v, order) == [type |-> "float", value |-> v, order |-> order]

\* sizeof of a scalar argument.
SizeOf(arg) ==
    IF arg.type \in {"u8", "s8", "bool"} THEN 1
    ELSE IF arg.type \in {"u16", "s16"} THEN 2
    ELSE 4

\* 256 to the power n, for the shifts of split_to_u8_tuple.
Shift8(n) == IF n = 0 THEN 1 ELSE IF n = 1 THEN 256 ELSE IF n = 2 THEN 65536 ELSE 16777216

\* value >> 8n; on a negative value the shift is arithmetic.
ShiftRight8(value, n) == (value - (value % Shift8(n))) \div Shift8(n)

\* The four bytes of a 32-bit object in memory, lowest address first.
MemoryBytes(value, order) ==
    [i \in 1 .. 4 |-> IF order = "little"
                      THEN ShiftRight8(value, i - 1) % 256
                      ELSE ShiftRight8(value, 4 - i) % 256]

\* split_to_u8_tuple (ulog.h:405-438): for an integer the bytes of the
\* value, least significant first; for a float conv.bytes[0..3], the bytes
\* of the object in memory.
split_to_u8_tuple(arg) ==
    IF arg.type = "float"
    THEN MemoryBytes(arg.value, arg.order)
    ELSE [i \in 1 .. SizeOf(arg) |-> ShiftRight8(arg.value, i - 1) % 256]

\* id | flag on a uint16_t, flag being one bit.
IdOr(id, flag) == IF (id \div flag) % 2 = 1 THEN id ELSE id + flag

\* str[pos] of the C string: its characters, then the terminator.
StrAt(str, pos) == IF pos < Len(str) THEN str[pos + 1] ELSE 0

\* A string encoder that sends no terminator packet when the string ends on
\* a four-byte boundary after its first run.
RECURSIVE send_string_chunks_no_empty_terminator(_, _, _)
send_string_chunks_no_empty_terminator(id, str, pos) ==
    LET b0 == StrAt(str, pos)
        b1 == StrAt(str, pos + 1)
        b2 == StrAt(str, pos + 2)
        b3 == StrAt(str, pos + 3)
    IN  IF b0 = 0 THEN (IF pos = 0 THEN <<[id |-> id, data |-> <<0>>]>> ELSE << >>)
        ELSE IF b1 = 0 THEN <<[id |-> id, data |-> <<b0, 0>>]>>
        ELSE IF b2 = 0 THEN <<[id |-> id, data |-> <<b0, b1, 0>>]>>
        ELSE IF b3 = 0 THEN <<[id |-> id, data |-> <<b0, b1, b2, 0>>]>>
        ELSE IF pos > ULOG_MAX_STR_LENGTH - 3 /\ Len(str) - pos > 3
             THEN <<[id |-> id, data |-> <<46, 46, 46, 0>>]>>
             ELSE <<[id |-> id, data |-> <<b0, b1, b2, b3>>]>>
                  \o send_string_chunks_no_empty_terminator(
                        IdOr(id, ULOG_ID_CONTINUATION), str, pos + 4)

\* A string encoder without the length limit.
RECURSIVE send_string_chunks_no_limit(_, _, _)
send_string_chunks_no_limit(id, str, pos) ==
    LET b0 == StrAt(str, pos)
        b1 == StrAt(str, pos + 1)
        b2 == StrAt(str, pos + 2)
        b3 == StrAt(str, pos + 3)
    IN  IF b0 = 0 THEN <<[id |-> id, data |-> <<0>>]>>
        ELSE IF b1 = 0 THEN <<[id |-> id, data |-> <<b0, 0>>]>>
        ELSE IF b2 = 0 THEN <<[id |-> id, data |-> <<b0, b1, 0>>]>>
        ELSE IF b3 = 0 THEN <<[id |-> id, data |-> <<b0, b1, b2, 0>>]>>
        ELSE <<[id |-> id, data |-> <<b0, b1, b2, b3>>]>>
             \o send_string_chunks_no_limit(IdOr(id, ULOG_ID_CONTINUATION), str, pos + 4)

\* send_string_chunks (ulog.h:451-492), from position pos on: the enqueue
\* calls it makes, each as [id, data]. (When b3 is not zero, strlen(str+pos)
\* is more than 3.)
RECURSIVE send_string_chunks(_, _, _)
send_string_chunks(id, str, pos) ==
    LET b0 == StrAt(str, pos)
        b1 == StrAt(str, pos + 1)
        b2 == StrAt(str, pos + 2)
        b3 == StrAt(str, pos + 3)
    IN  IF b0 = 0 THEN <<[id |-> id, data |-> <<0>>]>>
        ELSE IF b1 = 0 THEN <<[id |-> id, data |-> <<b0, 0>>]>>
        ELSE IF b2 = 0 THEN <<[id |-> id, data |-> <<b0, b1, 0>>]>>
        ELSE IF b3 = 0 THEN <<[id |-> id, data |-> <<b0, b1, b2, 0>>]>>
        ELSE IF pos > ULOG_MAX_STR_LENGTH - 3 /\ Len(str) - pos > 3
             THEN <<[id |-> id, data |-> <<46, 46, 46, 0>>]>>
             ELSE <<[id |-> id, data |-> <<b0, b1, b2, b3>>]>>
                  \o send_string_chunks(IdOr(id, ULOG_ID_CONTINUATION), str, pos + 4)

\* emit_single_arg (ulog.h:495-522).
emit_single_arg(id, arg) ==
    IF arg.type = "str"
    THEN send_string_chunks(id, arg.value, 0)
    ELSE <<[id |-> id, data |-> split_to_u8_tuple(arg)]>>

\* The fold over the arguments (ulog.h:544-548): argument 0 with id_first,
\* the others with id_rest.
RECURSIVE EmitArgs(_, _, _, _)
EmitArgs(id_first, id_rest, args, i) ==
    IF i > Len(args) THEN << >>
    ELSE emit_single_arg(IF i = 1 THEN id_first ELSE id_rest, args[i])
         \o EmitArgs(id_first, id_rest, args, i + 1)

\* ULOG that passes the plain id with every argument.
ULOG_no_continuation(id, args) ==
    IF Len(args) = 0
    THEN <<[id |-> id, data |-> << >>]>>
    ELSE EmitArgs(id, id, args, 1)

\* ULOG (ulog.h:526-551): the enqueue calls of one log call, in order.
ULOG(id, args) ==
    IF Len(args) = 0
    THEN <<[id |-> id, data |-> << >>]>>
    ELSE EmitArgs(id, IdOr(id, ULOG_ID_CONTINUATION), args, 1)

\* The log calls the producer makes (test.cpp, test_multi_arg.cpp and the
\* examples of the spec, with short strings; the long ones are given to
\* the string encoder on its own).
LogCalls ==
    { << >>,
      <<U8(10)>>,
      <<U8(10), U8(20)>>,
      <<U16(1000), U32(305419896), U8(COBS_EOF)>>,
      <<Str(<< >>)>>,
      <<Str(<<84, 101, 115>>)>>,
      <<Str(<<84, 101, 115, 116>>)>>,
      <<Str(<<84, 101, 115, 116, 49>>), U8(7)>>,
      <<U8(5), Str(<<79, 75>>), U32(1108213760)>> }

\* The number of packets of a log call, counted from its arguments: one per
\* integer; for a string one per four bytes of the transmitted text (the
\* string, or its first ULOG_MAX_STR_LENGTH characters and three dots) and
\* its terminator; one for a call without arguments.
ChunkCount(arg) ==
    IF arg.type = "str"
    THEN LET text == IF Len(arg.value) >= ULOG_MAX_STR_LENGTH + 4
                     THEN ULOG_MAX_STR_LENGTH + 3 ELSE Len(arg.value)
         IN  (text + 4) \div 4
    ELSE 1

RECURSIVE SumChunks(_, _)
SumChunks(args, i) ==
    IF i > Len(args) THEN 0 ELSE ChunkCount(args[i]) + SumChunks(args, i + 1)

PacketCount(args) == IF Len(args) = 0 THEN 1 ELSE SumChunks(args, 1)

\* A producer starts a log call: the macro has computed the id of the
\* call-site and goes on to make the enqueue calls.
log_call ==
    /\ phase = "record"
    /\ record_calls = << >>
    /\ record.n < MaxRecords
    /\ \E args \in LogCalls, id \in {CallId(attempts + 1)} :
          /\ record_calls' = ULOG(id, args)
          /\ record' = [n |-> record.n + 1, id |-> id, k |-> PacketCount(args),
                        start |-> Len(accepted), att |-> attempts]
    /\ UNCHANGED coreVars
    /\ UNCHANGED portVars
    /\ UNCHANGED obsVars
    /\ UNCHANGED scenarioVars
    /\ UNCHANGED contextVars
    /\ UNCHANGED codecVars

(***************************************************************************)
(* ulog_flush (ulog.c:285-296), called by an application thread: the test  *)
(* of the loop is made inside the critical section, the call of            *)
(* _ulog_transmit outside it.                                              *)
(***************************************************************************)
\* ulog_flush is called by a second thread of the Linux port next to the log
\* calls, or by the main context of the bare-metal port.
FlushMay ==
    \/ phase = "record" /\ port = "linux"
    \/ phase = "flush"
    \/ phase = "shutdown" /\ deinit_pc = "flush" /\ flush_pc # "idle"

\* ulog_flush that calls _ulog_transmit once before it tests the ring.
FlushNext_do_while(pc, head, tail) ==
    IF pc = "idle" \/ tail # head THEN "body" ELSE "idle"

\* ulog_flush that returns after one call of _ulog_transmit.
FlushNext_once(pc, head, tail) ==
    IF pc = "idle" /\ tail # head THEN "body" ELSE "idle"

\* The while of line 289, reached from the entry (pc "idle") or from the end
\* of the body (pc "loop"): into the body while log_tail != log_head.
FlushNext(pc, head, tail) ==
    IF tail # head THEN "body" ELSE "idle"

\* Lines 287-289 and 292-295: enter, test log_tail != log_head, exit; when
\* the test fails the call returns. last_call then says whether the call
\* went through the body ("user") or found the ring empty at once ("none").
ulog_flush_test ==
    /\ FlushMay
    /\ CriticalSectionFree
    /\ flush_pc \in {"idle", "loop"}
    /\ flush_pc' = FlushNext(flush_pc, log_head, log_tail)
    /\ last_call' = IF flush_pc' = "idle"
                    THEN [fn |-> "ulog_flush", reserved |-> FALSE, notify |-> FALSE,
                          kind |-> IF flush_pc = "idle" THEN "none" ELSE "user"]
                    ELSE last_call
    /\ interrupts' = ExitCriticalSection(port, interrupts)
    /\ UNCHANGED <<sink, attempts, accepted>>
    /\ UNCHANGED <<main_enqueue, context, stop_thread, deinit_pc>>
    /\ UNCHANGED coreVars
    /\ UNCHANGED portVars
    /\ UNCHANGED scenarioVars
    /\ UNCHANGED recordVars
    /\ UNCHANGED codecVars

\* Line 291: one call of _ulog_transmit, then back to the test.
ulog_flush_transmit ==
    /\ FlushMay
    /\ CriticalSectionFree
    /\ flush_pc = "body"
    /\ flush_pc' = "loop"
    /\ TransmitCall
    /\ UNCHANGED <<notified, worker_pc>>

\* The Linux port after its constructor, with a producer that makes log
\* calls, the worker thread, and a thread that calls ulog_flush.
InitRecord ==
    /\ log_head = 0
    /\ log_tail = 0
    /\ logs_circular_buffer = [i \in SlotIndex |-> ZeroPacket]
    /\ tx_encoded = TxEncodedInit
    /\ buffer_overrun = 0
    /\ port = "linux"
    /\ started = TRUE
    /\ uart_ready = TRUE
    /\ notified = FALSE
    /\ worker_pc = "top"
    /\ sink = <<Bytes(TxEncodedInit, 4)>>
    /\ attempts = 0
    /\ accepted = << >>
    /\ last_call = [fn |-> "_ulog_init", reserved |-> FALSE, notify |-> FALSE, kind |-> "start"]
    /\ phase = "record"
    /\ producer_fn = "any"
    /\ burst_start = 0
    /\ codec_in = << >>
    /\ codec_len = 0
    /\ call_in = << >>
    /\ call_out = << >>
    /\ InitContext

NextRecord ==
    \/ log_call
    \/ ulog_detail_enqueue
    \/ ulog_detail_enqueue_1
    \/ ulog_detail_enqueue_2
    \/ ulog_detail_enqueue_3
    \/ ulog_detail_enqueue_4
    \/ linux_worker_wait
    \/ linux_worker_transmit
    \/ ulog_flush_test
    \/ ulog_flush_transmit

SpecRecord == InitRecord /\ [][NextRecord]_vars

\* The log call has returned / none of its enqueue calls was rejected.
RecordDone == phase = "record" /\ record.n > 0 /\ record_calls = << >>
RecordComplete == attempts - record.att = Len(accepted) - record.start

\* The bodies of the accepted packets of the log call, and the id of a body
\* without and with its continuation flag.
RecordPackets == SubSeq(accepted, record.start + 1, Len(accepted))
BaseId(body) == (body[1] % 128) * 256 + body[2]
Continued(body) == body[1] >= 128

UsersBefore(o) == Len(SelectSeq(SubSeq(sink, 1, o), IsUserFrame))

(***************************************************************************)
(* C19 -- the overrun frame does not split a log call. While the worker    *)
(* and ulog_flush have kept up with the producer (every accepted packet is *)
(* in the sink or the ring), no overrun frame in the sink has packets of   *)
(* the latest log call both before and after it.                           *)
(***************************************************************************)
C19_OverrunNotInsideRecord ==
    (phase = "record" /\ record.n > 0)
      => \A o \in 1 .. Len(sink) :
            IsOverrunFrame(sink[o])
              => ~(/\ UsersBefore(o) > record.start
                   /\ UsersBefore(o) < Len(UserFrames))


(***************************************************************************)
(* An enqueue call of the main context, step by step, so that other        *)
(* contexts can run in between: entering the critical section and reading  *)
(* the ring state; the decision, the update of log_head or buffer_overrun  *)
(* and the exit (reserve_log_packet, ulog.c:86-115); then, outside the     *)
(* critical section, one step per store through dst and the notification   *)
(* (ulog.c:210-214, 220-228, 235-244).                                     *)
(***************************************************************************)
\* The ids of the main context's call-sites, apart from the other producers'.
MainCallId(n) == 16384 + CallId(n)
IsMainBody(body) == BaseId(body) >= 16384

\* The data the main context logs: none, or two bytes.
MainArgs == {<< >>, <<COBS_EOF, 34>>}

\* Line 90 and the reads of lines 94-97.
main_enqueue_enter ==
    /\ phase \in {"isr", "threads"}
    /\ main_enqueue.pc = "idle"
    /\ attempts < MaxAttempts
    /\ \E args \in MainArgs :
          main_enqueue' = [pc |-> "reserve", fn |-> EnqueueFn(Len(args)),
                           id |-> MainCallId(attempts + 1), args |-> args,
                           head |-> log_head, overrun |-> buffer_overrun,
                           saved |-> interrupts, slot |-> 0, step |-> 0]
    /\ interrupts' = EnterCriticalSection(port, interrupts)
    /\ UNCHANGED <<flush_pc, context, stop_thread, deinit_pc>>
    /\ UNCHANGED coreVars
    /\ UNCHANGED portVars
    /\ UNCHANGED obsVars
    /\ UNCHANGED scenarioVars
    /\ UNCHANGED recordVars
    /\ UNCHANGED codecVars

\* Lines 94-112: the decision on the values read, the stores, the exit.
main_enqueue_reserve ==
    LET m == main_enqueue
        r == reserve_log_packet(m.head, log_tail, m.overrun)
    IN  /\ m.pc = "reserve"
        /\ log_head' = r.log_head
        /\ buffer_overrun' = r.buffer_overrun
        /\ attempts' = attempts + 1
        /\ accepted' = IF r.reserved THEN Append(accepted, CallBody(m.id, m.args)) ELSE accepted
        /\ last_call' = [fn |-> m.fn, reserved |-> r.reserved, notify |-> FALSE, kind |-> "none"]
        /\ main_enqueue' = IF r.reserved
                           THEN [m EXCEPT !.pc = "fill", !.slot = r.slot]
                           ELSE MainIdle
        /\ interrupts' = ExitCriticalSection(port, m.saved)
        /\ UNCHANGED <<log_tail, logs_circular_buffer, tx_encoded, sink>>
        /\ UNCHANGED <<flush_pc, context, stop_thread, deinit_pc>>
        /\ UNCHANGED portVars
        /\ UNCHANGED scenarioVars
        /\ UNCHANGED recordVars
        /\ UNCHANGED codecVars

\* The slot after the store number step of the function: id_msb, id_lsb,
\* payload_len, data[0], data[1], ...
StoreField(pkt, m) ==
    IF m.step = 0 THEN [pkt EXCEPT !.payload[0] = m.id \div 256]
    ELSE IF m.step = 1 THEN [pkt EXCEPT !.payload[1] = m.id % 256]
    ELSE IF m.step = 2 THEN [pkt EXCEPT !.payload_len = ULOG_ID_SIZE + Len(m.args)]
    ELSE [pkt EXCEPT !.payload[m.step - 1] = m.args[m.step - 2]]

\* One store through dst. After the last one ulog_detail_enqueue returns;
\* the other entry points go on to notify.
main_enqueue_store ==
    LET m == main_enqueue
        last == m.step + 1 = 3 + Len(m.args)
    IN  /\ m.pc = "fill"
        /\ logs_circular_buffer' =
              [logs_circular_buffer EXCEPT ![m.slot] = StoreField(@, m)]
        /\ main_enqueue' = IF ~last THEN [m EXCEPT !.step = m.step + 1]
                           ELSE IF Len(m.args) = 0 THEN MainIdle
                           ELSE [m EXCEPT !.pc = "notify", !.step = m.step + 1]
        /\ UNCHANGED <<log_head, log_tail, tx_encoded, buffer_overrun>>
        /\ UNCHANGED <<flush_pc, interrupts, context, stop_thread, deinit_pc>>
        /\ UNCHANGED portVars
        /\ UNCHANGED obsVars
        /\ UNCHANGED scenarioVars
        /\ UNCHANGED recordVars
        /\ UNCHANGED codecVars

\* _ULOG_PORT_NOTIFY(), and the return.
main_enqueue_notify ==
    LET n == PortNotify(port, notified, worker_pc)
    IN  /\ main_enqueue.pc = "notify"
        /\ notified' = n.notified
        /\ worker_pc' = n.worker_pc
        /\ last_call' = [last_call EXCEPT !.fn = main_enqueue.fn, !.reserved = TRUE,
                                          !.notify = TRUE, !.kind = "none"]
        /\ main_enqueue' = MainIdle
        /\ UNCHANGED <<started, uart_ready, port, sink, attempts, accepted>>
        /\ UNCHANGED <<flush_pc, interrupts, context, stop_thread, deinit_pc>>
        /\ UNCHANGED coreVars
        /\ UNCHANGED scenarioVars
        /\ UNCHANGED recordVars
        /\ UNCHANGED codecVars

(***************************************************************************)
(* The bare-metal port with a producer in the main context and producers   *)
(* in interrupt handlers. A handler runs whenever interrupts are enabled,  *)
(* between any two steps of the main context, and makes one enqueue call;  *)
(* the drain and the UART completion are as in Spec. The specification     *)
(* starts after the port's constructor.                                    *)
(***************************************************************************)
InitIsr ==
    /\ log_head = 0
    /\ log_tail = 0
    /\ logs_circular_buffer = [i \in SlotIndex |-> ZeroPacket]
    /\ tx_encoded = TxEncodedInit
    /\ buffer_overrun = 0
    /\ port = "poll"
    /\ started = TRUE
    /\ uart_ready = ReadyAfterSend(port, TRUE)
    /\ notified = FALSE
    /\ worker_pc = "none"
    /\ sink = <<Bytes(TxEncodedInit, 4)>>
    /\ attempts = 0
    /\ accepted = << >>
    /\ last_call = [fn |-> "_ulog_init", reserved |-> FALSE, notify |-> FALSE, kind |-> "start"]
    /\ phase = "isr"
    /\ producer_fn = "any"
    /\ burst_start = 0
    /\ codec_in = << >>
    /\ codec_len = 0
    /\ call_in = << >>
    /\ call_out = << >>
    /\ InitContext

NextIsr ==
    \/ main_enqueue_enter
    \/ main_enqueue_reserve
    \/ main_enqueue_store
    \/ main_enqueue_notify
    \/ ulog_detail_enqueue_1
    \/ ulog_detail_enqueue_4
    \/ ulog_on_transmit
    \/ send_complete

SpecIsr == InitIsr /\ [][NextIsr]_vars

\* The slot j places from the tail is the one the main context is filling.
BeingFilled(j) ==
    /\ main_enqueue.pc = "fill"
    /\ (log_tail + j) % ULOG_QUEUE_SIZE = main_enqueue.slot

\* The bodies of the main context, and of the handlers, in a sequence of
\* bodies.
IsHandlerBody(body) == ~IsMainBody(body)
MainBodies(bodies) == SelectSeq(bodies, IsMainBody)
HandlerBodies(bodies) == SelectSeq(bodies, IsHandlerBody)

\* The bodies delivered so far, read back from the user frames of the sink.
Delivered == [i \in 1 .. Len(UserFrames) |-> cobs_decode(UserFrames[i])]

\* s is the beginning of t.
IsPrefix(s, t) == Len(s) <= Len(t) /\ SubSeq(t, 1, Len(s)) = s

(***************************************************************************)
(* C17 -- interrupt safety. With handlers enqueueing between any two steps *)
(* of the main context's enqueue: every accepted packet is in the sink or  *)
(* in a slot of its own (never both, never twice); the slots that are not  *)
(* being filled hold the bodies their producers passed; each producer's    *)
(* delivered packets are the first of its accepted packets, in its order;  *)
(* and until an overrun frame clears the counter, accepted packets plus    *)
(* buffer_overrun equals the attempts made.                                *)
(***************************************************************************)
C17_InterruptSafety ==
    (phase = "isr")
      => /\ Len(accepted) = Len(UserFrames) + Queued
         /\ \A j \in 0 .. (Queued - 1) :
               ~BeingFilled(j)
                 => Body(QueuedPacket(j)) = accepted[Len(UserFrames) + 1 + j]
         /\ IsPrefix(MainBodies(Delivered), MainBodies(accepted))
         /\ IsPrefix(HandlerBodies(Delivered), HandlerBodies(accepted))
         /\ Len(Delivered) = Len(MainBodies(Delivered)) + Len(HandlerBodies(Delivered))
         /\ ((\A o \in 1 .. Len(sink) : ~IsOverrunFrame(sink[o])) /\ buffer_overrun < 255)
              => attempts = Len(accepted) + buffer_overrun

\* The main context is between two stores into its slot and a handler has
\* enqueued behind it meanwhile; an earlier packet of each has been
\* delivered, the main context's first.
C17_Witness ==
    /\ phase = "isr"
    /\ main_enqueue.pc = "fill"
    /\ main_enqueue.step = 3
    /\ Len(accepted) = 4
    /\ accepted[3] = CallBody(main_enqueue.id, main_enqueue.args)
    /\ IsHandlerBody(accepted[4])
    /\ Len(Delivered) = 2
    /\ IsMainBody(Delivered[1])
    /\ IsHandlerBody(Delivered[2])
    /\ Queued = 2



(***************************************************************************)
(* The Linux port with two producer threads and the worker thread. One     *)
(* producer is followed step by step; the other threads take a step        *)
(* whenever they can get the mutex.                                        *)
(***************************************************************************)
InitThreads ==
    /\ log_head = 0
    /\ log_tail = 0
    /\ logs_circular_buffer = [i \in SlotIndex |-> ZeroPacket]
    /\ tx_encoded = TxEncodedInit
    /\ buffer_overrun = 0
    /\ port = "linux"
    /\ started = TRUE
    /\ uart_ready = TRUE
    /\ notified = FALSE
    /\ worker_pc = "top"
    /\ sink = <<Bytes(TxEncodedInit, 4)>>
    /\ attempts = 0
    /\ accepted = << >>
    /\ last_call = [fn |-> "_ulog_init", reserved |-> FALSE, notify |-> FALSE, kind |-> "start"]
    /\ phase = "threads"
    /\ producer_fn = "any"
    /\ burst_start = 0
    /\ codec_in = << >>
    /\ codec_len = 0
    /\ call_in = << >>
    /\ call_out = << >>
    /\ InitContext

NextThreads ==
    \/ main_enqueue_enter
    \/ main_enqueue_reserve
    \/ main_enqueue_store
    \/ main_enqueue_notify
    \/ ulog_detail_enqueue_1
    \/ linux_worker_wait
    \/ linux_worker_transmit

SpecThreads == InitThreads /\ [][NextThreads]_vars

(***************************************************************************)
(* C18 -- a slot is complete before it is sent. No call of _ulog_transmit  *)
(* dequeues and sends the slot a producer has reserved and is still        *)
(* writing.                                                                *)
(***************************************************************************)
C18_SlotWrittenBeforeSent ==
    [][(SendStep /\ last_call'.kind = "user")
          => ~(main_enqueue.pc = "fill" /\ main_enqueue.slot = log_tail)]_vars


(***************************************************************************)
(* The AVR ports with the processor's global interrupt enable. The         *)
(* producer code runs in the main context, in an interrupt handler (the    *)
(* hardware clears the enable on entry and RETI sets it) or inside a       *)
(* critical section of the application (cli() ... sei() around its own     *)
(* data); it may log from each of them. The drain is called from the main  *)
(* context.                                                                *)
(***************************************************************************)
isr_entry ==
    /\ phase = "nest"
    /\ context = "main"
    /\ interrupts
    /\ context' = "isr"
    /\ interrupts' = FALSE
    /\ UNCHANGED <<flush_pc, main_enqueue, stop_thread, deinit_pc>>
    /\ UNCHANGED coreVars
    /\ UNCHANGED portVars
    /\ UNCHANGED obsVars
    /\ UNCHANGED scenarioVars
    /\ UNCHANGED recordVars
    /\ UNCHANGED codecVars

isr_return ==
    /\ phase = "nest"
    /\ context = "isr"
    /\ context' = "main"
    /\ interrupts' = TRUE
    /\ UNCHANGED <<flush_pc, main_enqueue, stop_thread, deinit_pc>>
    /\ UNCHANGED coreVars
    /\ UNCHANGED portVars
    /\ UNCHANGED obsVars
    /\ UNCHANGED scenarioVars
    /\ UNCHANGED recordVars
    /\ UNCHANGED codecVars

app_enter_critical ==
    /\ phase = "nest"
    /\ context = "main"
    /\ context' = "critical"
    /\ interrupts' = FALSE
    /\ UNCHANGED <<flush_pc, main_enqueue, stop_thread, deinit_pc>>
    /\ UNCHANGED coreVars
    /\ UNCHANGED portVars
    /\ UNCHANGED obsVars
    /\ UNCHANGED scenarioVars
    /\ UNCHANGED recordVars
    /\ UNCHANGED codecVars

app_exit_critical ==
    /\ phase = "nest"
    /\ context = "critical"
    /\ context' = "main"
    /\ interrupts' = TRUE
    /\ UNCHANGED <<flush_pc, main_enqueue, stop_thread, deinit_pc>>
    /\ UNCHANGED coreVars
    /\ UNCHANGED portVars
    /\ UNCHANGED obsVars
    /\ UNCHANGED scenarioVars
    /\ UNCHANGED recordVars
    /\ UNCHANGED codecVars

InitNest ==
    /\ log_head = 0
    /\ log_tail = 0
    /\ logs_circular_buffer = [i \in SlotIndex |-> ZeroPacket]
    /\ tx_encoded = TxEncodedInit
    /\ buffer_overrun = 0
    /\ port \in {"poll", "asx"}
    /\ started = TRUE
    /\ uart_ready = ReadyAfterSend(port, TRUE)
    /\ notified = FALSE
    /\ worker_pc = "none"
    /\ sink = <<Bytes(TxEncodedInit, 4)>>
    /\ attempts = 0
    /\ accepted = << >>
    /\ last_call = [fn |-> "_ulog_init", reserved |-> FALSE, notify |-> FALSE, kind |-> "start"]
    /\ phase = "nest"
    /\ producer_fn = "any"
    /\ burst_start = 0
    /\ codec_in = << >>
    /\ codec_len = 0
    /\ call_in = << >>
    /\ call_out = << >>
    /\ InitContext

NextNest ==
    \/ isr_entry
    \/ isr_return
    \/ app_enter_critical
    \/ app_exit_critical
    \/ ulog_detail_enqueue
    \/ ulog_detail_enqueue_1
    \/ ulog_on_transmit
    \/ asx_reactor
    \/ send_complete

SpecNest == InitNest /\ [][NextNest]_vars

(***************************************************************************)
(* C20 -- critical sections nest. An enqueue call made with interrupts     *)
(* disabled returns with interrupts still disabled.                        *)
(***************************************************************************)
C20_CriticalSectionsNest ==
    [][(EnqueueStep /\ ~interrupts) => ~interrupts']_vars


(***************************************************************************)
(* The bare-metal port with an application that drains through ulog_flush  *)
(* only (test.cpp:17-23): enqueue calls, from the main context between the *)
(* calls of ulog_flush and from interrupt handlers during them, the steps  *)
(* of ulog_flush, and the UART completion.                                 *)
(***************************************************************************)
InitFlush ==
    /\ log_head = 0
    /\ log_tail = 0
    /\ logs_circular_buffer = [i \in SlotIndex |-> ZeroPacket]
    /\ tx_encoded = TxEncodedInit
    /\ buffer_overrun = 0
    /\ port = "poll"
    /\ started = TRUE
    /\ uart_ready = ReadyAfterSend(port, TRUE)
    /\ notified = FALSE
    /\ worker_pc = "none"
    /\ sink = <<Bytes(TxEncodedInit, 4)>>
    /\ attempts = 0
    /\ accepted = << >>
    /\ last_call = [fn |-> "_ulog_init", reserved |-> FALSE, notify |-> FALSE, kind |-> "start"]
    /\ phase = "flush"
    /\ producer_fn = "any"
    /\ burst_start = 0
    /\ codec_in = << >>
    /\ codec_len = 0
    /\ call_in = << >>
    /\ call_out = << >>
    /\ InitContext

NextFlush ==
    \/ ulog_detail_enqueue
    \/ ulog_detail_enqueue_1
    \/ ulog_detail_enqueue_2
    \/ ulog_detail_enqueue_3
    \/ ulog_detail_enqueue_4
    \/ ulog_flush_test
    \/ ulog_flush_transmit
    \/ send_complete

SpecFlush == InitFlush /\ [][NextFlush]_vars

\* The caller of ulog_flush gets through line 291: the call of
\* _ulog_transmit returns and the loop goes back to its test. (This is the
\* change of flush_pc that ulog_flush_transmit makes.)
FlushBodyReturns == flush_pc = "body" /\ flush_pc' = "loop"

\* The UART completes every frame and the caller of ulog_flush keeps
\* running; the producers make MaxAttempts calls and then stop.
SpecFlushLive ==
    /\ InitFlush
    /\ [][NextFlush]_vars
    /\ WF_vars(ulog_flush_test)
    /\ WF_flush_pc(FlushBodyReturns)
    /\ WF_vars(send_complete)

(***************************************************************************)
(* C21 -- flush idempotence. When ulog_flush has just returned, a step     *)
(* that is not an enqueue call (so: the next call of ulog_flush) hands     *)
(* nothing to the sink and returns without entering the loop, whether or   *)
(* not buffer_overrun is set.                                              *)
(***************************************************************************)
C21_FlushIdempotent ==
    [][(last_call.fn = "ulog_flush" /\ attempts' = attempts)
          => (sink' = sink /\ flush_pc' = "idle" /\ buffer_overrun' = buffer_overrun)]_vars

\* A call of ulog_flush has found the ring empty at once and returned, after
\* an earlier one had drained two packets; an overrun is pending and no
\* overrun frame was sent.
C21_Witness ==
    /\ phase = "flush"
    /\ last_call.fn = "ulog_flush"
    /\ last_call.kind = "none"
    /\ flush_pc = "idle"
    /\ buffer_overrun > 0
    /\ Len(UserFrames) = ULOG_QUEUE_SIZE - 1
    /\ Len(sink) = ULOG_QUEUE_SIZE

\* s is the sequence of the frames of the bodies in t.
FramesOf(t) == [i \in 1 .. Len(t) |-> Frame(t[i])]

(***************************************************************************)
(* C22 -- ulog_flush drains the ring. A call of ulog_flush that has        *)
(* entered its loop returns (the UART completing every frame, the          *)
(* producers having stopped), and whenever ulog_flush returns the ring is  *)
(* empty and the sink has received the frames of all accepted packets, in  *)
(* the order of their acceptance.                                          *)
(***************************************************************************)
C22_FlushDrains ==
    /\ [][(flush_pc' = "idle" /\ last_call'.fn = "ulog_flush" /\ last_call' # last_call)
             => (log_head' = log_tail' /\ UserFrames' = FramesOf(accepted'))]_vars
    /\ (flush_pc # "idle") ~> (flush_pc = "idle")

\* ulog_flush has returned after going through its loop; the two packets
\* accepted so far are in the sink and the ring is empty.
C22_Witness ==
    /\ phase = "flush"
    /\ last_call.fn = "ulog_flush"
    /\ last_call.kind = "user"
    /\ flush_pc = "idle"
    /\ log_head = log_tail
    /\ Len(accepted) = 2
    /\ UserFrames = FramesOf(accepted)


(***************************************************************************)
(* The core of the build with 8-bit identifiers (ulog.cpp, namespace       *)
(* asx::ulog::detail): the same ring and encoder, a one-byte id, no        *)
(* overrun counter, no start frame, and a drain bound to the ASX reactor.  *)
(* The specification starts after the constructor init() (ulog.cpp:167-178)*)
(* has bound the handler.                                                  *)
(***************************************************************************)
\* sizeof(LogPacket::payload) and sizeof(tx_encoded) (ulog.cpp:49, 74)
AsxPayloadSize == 1 + MAX_PAYLOAD
AsxTxSize == MAX_PAYLOAD + 2

AsxZeroPacket == [payload_len |-> 0, payload |-> [i \in 0 .. (AsxPayloadSize - 1) |-> 0]]
AsxTxEncodedInit == [i \in 0 .. (AsxTxSize - 1) |-> 0]

\* What a byte stored past the end of tx_encoded reads back as when the
\* frame is handed to the UART: the behaviour is undefined, so the value
\* stored, or whatever the neighbouring object holds.
ScratchOverflowBytes == {COBS_EOF, 0, 255}

\* reserve_log_packet (ulog.cpp:87-107): a slot unless the ring is full; the
\* reactor is notified in both cases.
asx_reserve_log_packet(head, tail) ==
    LET next == (head + 1) % ULOG_QUEUE_SIZE IN
    IF next # tail
    THEN [reserved |-> TRUE, slot |-> head, log_head |-> next]
    ELSE [reserved |-> FALSE, slot |-> head, log_head |-> head]

\* The stores of ulog_detail_enqueue_k (ulog.cpp:189-232): id, payload_len
\* and data[0..k-1].
AsxFillPacket(pkt, id, args) ==
    [payload_len |-> 1 + Len(args),
     payload |-> [i \in 0 .. (AsxPayloadSize - 1) |->
                    IF i = 0 THEN id
                    ELSE IF i <= Len(args) THEN args[i]
                    ELSE pkt.payload[i]]]

AsxEnqueueCall(fn, id, args) ==
    LET r == asx_reserve_log_packet(log_head, log_tail) IN
    /\ port = "asx8"
    /\ ProducerMay(fn)
    /\ log_head' = r.log_head
    /\ logs_circular_buffer' =
          IF r.reserved
          THEN [logs_circular_buffer EXCEPT ![r.slot] = AsxFillPacket(@, id, args)]
          ELSE logs_circular_buffer
    /\ notified' = TRUE
    /\ attempts' = attempts + 1
    /\ accepted' = IF r.reserved THEN Append(accepted, <<id>> \o args) ELSE accepted
    /\ last_call' = [fn |-> fn, reserved |-> r.reserved, notify |-> TRUE, kind |-> "none"]
    /\ UNCHANGED <<log_tail, tx_encoded, buffer_overrun, started, uart_ready,
                   worker_pc, port, sink>>
    /\ UNCHANGED scenarioVars
    /\ UNCHANGED recordVars
    /\ UNCHANGED contextVars
    /\ UNCHANGED codecVars

asx_ulog_detail_enqueue ==
    \E id \in {CallId(attempts + 1)} :
        AsxEnqueueCall("ulog_detail_enqueue", id, << >>)

asx_ulog_detail_enqueue_1 ==
    \E id \in {CallId(attempts + 1)}, v0 \in DataBytes(0) :
        AsxEnqueueCall("ulog_detail_enqueue_1", id, <<v0>>)

asx_ulog_detail_enqueue_2 ==
    \E id \in {CallId(attempts + 1)}, v0 \in DataBytes(0), v1 \in DataBytes(1) :
        AsxEnqueueCall("ulog_detail_enqueue_2", id, <<v0, v1>>)

asx_ulog_detail_enqueue_3 ==
    \E id \in {CallId(attempts + 1)}, v0 \in DataBytes(0), v1 \in DataBytes(1), v2 \in DataBytes(2) :
        AsxEnqueueCall("ulog_detail_enqueue_3", id, <<v0, v1, v2>>)

asx_ulog_detail_enqueue_4 ==
    \E id \in {CallId(attempts + 1)}, v0 \in DataBytes(0), v1 \in DataBytes(1),
       v2 \in DataBytes(2), v3 \in DataBytes(3) :
        AsxEnqueueCall("ulog_detail_enqueue_4", id, <<v0, v1, v2, v3>>)

\* on_transmit (ulog.cpp:146-161), run by the reactor once per pending
\* notification: when the ring is not empty, take the packet at the tail,
\* encode it into tx_encoded and hand it to uart::send. There is no test of
\* the transport's readiness. A frame of seven bytes does not fit
\* tx_encoded: its last byte is stored, and read back, outside the array.
asx_on_transmit ==
    /\ port = "asx8"
    /\ DrainMay
    /\ notified
    /\ notified' = FALSE
    /\ IF log_tail # log_head
       THEN \E oob \in ScratchOverflowBytes :
            LET pkt == logs_circular_buffer[log_tail]
                e == cobs_encode(tx_encoded, pkt.payload, pkt.payload_len)
                frame == [i \in 1 .. e.encoded_len |->
                             IF (i - 1) \in DOMAIN e.tx_encoded
                             THEN e.tx_encoded[i - 1] ELSE oob]
            IN  /\ log_tail' = (log_tail + 1) % ULOG_QUEUE_SIZE
                /\ tx_encoded' = e.tx_encoded
                /\ sink' = Append(sink, frame)
                /\ uart_ready' = FALSE
                /\ last_call' = [fn |-> "on_transmit", reserved |-> FALSE,
                                 notify |-> FALSE, kind |-> "user"]
       ELSE /\ last_call' = [fn |-> "on_transmit", reserved |-> FALSE,
                             notify |-> FALSE, kind |-> "none"]
            /\ UNCHANGED <<log_tail, tx_encoded, sink, uart_ready>>
    /\ UNCHANGED <<log_head, logs_circular_buffer, buffer_overrun, started,
                   worker_pc, port, attempts, accepted>>
    /\ UNCHANGED scenarioVars
    /\ UNCHANGED recordVars
    /\ UNCHANGED contextVars
    /\ UNCHANGED codecVars

InitAsx ==
    /\ log_head = 0
    /\ log_tail = 0
    /\ logs_circular_buffer = [i \in SlotIndex |-> AsxZeroPacket]
    /\ tx_encoded = AsxTxEncodedInit
    /\ buffer_overrun = 0
    /\ port = "asx8"
    /\ started = TRUE
    /\ uart_ready = TRUE
    /\ notified = FALSE
    /\ worker_pc = "none"
    /\ sink = << >>
    /\ attempts = 0
    /\ accepted = << >>
    /\ last_call = [fn |-> "init", reserved |-> FALSE, notify |-> FALSE, kind |-> "none"]
    /\ phase = "free"
    /\ producer_fn = "any"
    /\ burst_start = 0
    /\ codec_in = << >>
    /\ codec_len = 0
    /\ call_in = << >>
    /\ call_out = << >>
    /\ InitContext

NextAsx ==
    \/ asx_ulog_detail_enqueue
    \/ asx_ulog_detail_enqueue_1
    \/ asx_ulog_detail_enqueue_2
    \/ asx_ulog_detail_enqueue_3
    \/ asx_ulog_detail_enqueue_4
    \/ asx_on_transmit
    \/ send_complete

SpecAsx == InitAsx /\ [][NextAsx]_vars

(***************************************************************************)
(* C14 -- no send while a frame is in flight. Between a send and the       *)
(* transport reporting ready again, no step hands a frame to the sink and  *)
(* no step overwrites tx_encoded.                                          *)
(***************************************************************************)
C14_NoSendWhileInFlight ==
    [][~uart_ready => (sink' = sink /\ tx_encoded' = tx_encoded)]_vars

(***************************************************************************)
(* The string encoder on its own: one string argument of 0 to MaxStrLen    *)
(* characters is given to emit_single_arg with an id, and the enqueue      *)
(* calls it makes are recorded together with the highest index of the      *)
(* argument it read.                                                       *)
(***************************************************************************)
MaxStrLen == 21

\* Ids given with the string: of a first argument (flag clear) and of a
\* later argument (flag set).
StringIds == {1, 677, ULOG_ID_CONTINUATION + 677}

\* First characters of the strings: '1', '.', and 250, from which the
\* characters run over 255 to 1.
StringFirsts == {49, 46, 250}

\* The string of n non-zero characters counting up from first.
StringOf(first, n) == [i \in 1 .. n |-> ((first + i - 2) % 255) + 1]

\* The highest index of str that send_string_chunks (ulog.h:451-492) reads
\* from position pos on: b0 to b3 up to the first zero, and in the branch
\* where pos is past the limit, strlen(str + pos), which reads up to the
\* terminator.
RECURSIVE send_string_reads(_, _)
send_string_reads(str, pos) ==
    IF StrAt(str, pos) = 0 THEN pos
    ELSE IF StrAt(str, pos + 1) = 0 THEN pos + 1
    ELSE IF StrAt(str, pos + 2) = 0 THEN pos + 2
    ELSE IF StrAt(str, pos + 3) = 0 THEN pos + 3
    ELSE IF pos > ULOG_MAX_STR_LENGTH - 3
         THEN Len(str)
         ELSE send_string_reads(str, pos + 4)

string_encode ==
    /\ phase = "string"
    /\ ~call_out.done
    /\ call_out' = [done |-> TRUE,
                    calls |-> emit_single_arg(call_in.id, Str(call_in.str)),
                    read |-> send_string_reads(call_in.str, 0)]
    /\ UNCHANGED <<codec_in, codec_len, call_in>>
    /\ UNCHANGED coreVars
    /\ UNCHANGED portVars
    /\ UNCHANGED obsVars
    /\ UNCHANGED scenarioVars
    /\ UNCHANGED recordVars
    /\ UNCHANGED contextVars

InitString ==
    /\ InitProgram
    /\ codec_in = << >>
    /\ port = "poll"
    /\ phase = "string"
    /\ producer_fn = "any"
    /\ call_in \in {[id |-> id, str |-> StringOf(first, n)] :
                       id \in StringIds, first \in StringFirsts, n \in 0 .. MaxStrLen}
    /\ call_out = [done |-> FALSE, calls |-> << >>, read |-> 0]

NextString == string_encode

SpecString == InitString /\ [][NextString]_vars

\* The payload bytes of the enqueue calls made, one after the other.
RECURSIVE PayloadOf(_, _)
PayloadOf(calls, i) ==
    IF i > Len(calls) THEN << >> ELSE calls[i].data \o PayloadOf(calls, i + 1)

(***************************************************************************)
(* C26 -- string chunking. For a string of L <= 16 characters the encoder  *)
(* makes floor(L/4) enqueue calls of four consecutive characters each, and *)
(* then one call with the remaining L mod 4 characters and a zero byte     *)
(* (the zero byte alone when L is a multiple of four, L = 0 included).     *)
(* The first call has the id given; the later ones have that id with the   *)
(* continuation flag set.                                                  *)
(***************************************************************************)
C26_StringChunking ==
    (call_out.done /\ Len(call_in.str) <= ULOG_MAX_STR_LENGTH)
      => LET L == Len(call_in.str)
             full == L \div 4
             calls == call_out.calls
         IN  /\ Len(calls) = full + 1
             /\ \A j \in 1 .. full :
                   calls[j].data = SubSeq(call_in.str, 4 * j - 3, 4 * j)
             /\ calls[full + 1].data = SubSeq(call_in.str, 4 * full + 1, L) \o <<0>>
             /\ calls[1].id = call_in.id
             /\ \A j \in 2 .. (full + 1) :
                   /\ calls[j].id % ULOG_ID_CONTINUATION = call_in.id % ULOG_ID_CONTINUATION
                   /\ calls[j].id \div ULOG_ID_CONTINUATION = 1

\* A string of 16 characters, given with an id that has the flag clear, was
\* sent as four calls of four characters and a fifth of the zero byte alone.
C26_Witness ==
    /\ phase = "string"
    /\ call_out.done
    /\ Len(call_in.str) = ULOG_MAX_STR_LENGTH
    /\ call_in.id = 677
    /\ Len(call_out.calls) = 5
    /\ call_out.calls[5] = [id |-> ULOG_ID_CONTINUATION + 677, data |-> <<0>>]
    /\ call_out.calls[1].id = 677

(***************************************************************************)
(* C27 -- string truncation, as the encoder does it. A string of at most   *)
(* ULOG_MAX_STR_LENGTH + 3 = 19 characters is sent in full: the payloads   *)
(* of the calls, put together, are the string and its zero byte. A string  *)
(* of 20 or more characters is cut: the payloads are its first 16          *)
(* characters followed by '.', '.', '.', 0, in five calls. So at most 19   *)
(* characters of a string are sent, in at most five calls.                 *)
(***************************************************************************)
Ellipsis == <<46, 46, 46, 0>>

C27_StringTruncation ==
    call_out.done
      => LET L == Len(call_in.str)
             sent == PayloadOf(call_out.calls, 1)
         IN  /\ (L <= ULOG_MAX_STR_LENGTH + 3) => sent = call_in.str \o <<0>>
             /\ (L > ULOG_MAX_STR_LENGTH + 3)
                   => /\ sent = SubSeq(call_in.str, 1, ULOG_MAX_STR_LENGTH) \o Ellipsis
                      /\ call_out.calls[Len(call_out.calls)].data = Ellipsis
             /\ Len(call_out.calls) <= ULOG_MAX_STR_LENGTH \div 4 + 1
             /\ Len(sent) <= ULOG_MAX_STR_LENGTH + 4

\* A string of 20 characters was cut after 16, and the ellipsis sent.
C27_Witness ==
    /\ phase = "string"
    /\ call_out.done
    /\ Len(call_in.str) = ULOG_MAX_STR_LENGTH + 4
    /\ call_in.str[1] = 49
    /\ Len(call_out.calls) = 5
    /\ call_out.calls[4].data = SubSeq(call_in.str, 13, 16)
    /\ call_out.calls[5].data = Ellipsis

(***************************************************************************)
(* C27, as stated -- a string of at most 16 characters is sent in full,    *)
(* and every string of more than 16 characters is cut: its last call       *)
(* carries '.', '.', '.', 0 and no more than 16 of its characters are      *)
(* sent.                                                                   *)
(***************************************************************************)
C27_TruncatedBeyondSixteen ==
    call_out.done
      => LET L == Len(call_in.str)
             sent == PayloadOf(call_out.calls, 1)
         IN  /\ (L <= ULOG_MAX_STR_LENGTH) => sent = call_in.str \o <<0>>
             /\ (L > ULOG_MAX_STR_LENGTH)
                   => /\ call_out.calls[Len(call_out.calls)].data = Ellipsis
                      /\ sent = SubSeq(call_in.str, 1, Len(sent) - 4) \o Ellipsis
                      /\ Len(sent) - 4 <= ULOG_MAX_STR_LENGTH

(***************************************************************************)
(* C28 -- malformed-string bound. For an argument with no zero byte in its *)
(* first ULOG_MAX_STR_LENGTH + 3 = 19 bytes, the last call of the encoder  *)
(* carries '.', '.', '.', 0, the encoder makes at most five calls, and it  *)
(* reads no byte of the argument at index 19 or beyond.                    *)
(***************************************************************************)
C28_MalformedStringBounded ==
    (call_out.done /\ Len(call_in.str) >= ULOG_MAX_STR_LENGTH + 3)
      => /\ call_out.calls[Len(call_out.calls)].data = Ellipsis
         /\ Len(call_out.calls) <= ULOG_MAX_STR_LENGTH \div 4 + 1
         /\ call_out.read < ULOG_MAX_STR_LENGTH + 3

(***************************************************************************)
(* The scalar arguments on their own: one argument of a supported type is  *)
(* logged through the C dispatchers or through the C++ templates, and the  *)
(* enqueue call made is recorded with the packet it fills.                 *)
(***************************************************************************)
ulog_dispatch_u8(id, a) == <<[id |-> id, data |-> <<a>>]>>

ulog_dispatch_u16(id, a) ==
    <<[id |-> id, data |-> <<a % 256, ShiftRight8(a, 1) % 256>>]>>

ulog_dispatch_u32(id, a) ==
    <<[id |-> id, data |-> <<a % 256, ShiftRight8(a, 1) % 256,
                             ShiftRight8(a, 2) % 256, ShiftRight8(a, 3) % 256>>]>>

\* conv.u of the union is the bit pattern of the float.
ulog_dispatch_float(id, a) ==
    <<[id |-> id, data |-> <<a % 256, ShiftRight8(a, 1) % 256,
                             ShiftRight8(a, 2) % 256, ShiftRight8(a, 3) % 256>>]>>

\* _ULOG_DISPATCH_GENERIC (ulog.h:218-228) with its casts.
ULOG_DISPATCH_GENERIC(id, arg) ==
    IF arg.type = "u8" THEN ulog_dispatch_u8(id, arg.value)
    ELSE IF arg.type \in {"s8", "bool"} THEN ulog_dispatch_u8(id, arg.value % 256)
    ELSE IF arg.type = "u16" THEN ulog_dispatch_u16(id, arg.value)
    ELSE IF arg.type = "s16" THEN ulog_dispatch_u16(id, arg.value % 65536)
    ELSE IF arg.type \in {"u32", "s32"} THEN ulog_dispatch_u32(id, arg.value)
    ELSE ulog_dispatch_float(id, arg.value)

\* The values logged: those of test_c.c and the ends of each range.
ScalarArgs(order) ==
    {U8(0), U8(COBS_EOF), U8(255),
     S8(-128), S8(-1), S8(127),
     Bool(0), Bool(1),
     U16(0), U16(1000), U16(65535),
     S16(-32768), S16(-2), S16(32767),
     U32(0), U32(305419896), U32(-559038737), U32(-1),
     S32(-2147483647 - 1), S32(-123456), S32(2147483647),
     Float(1078530000, order), Float(-1082130432, order), Float(0, order)}

ByteOrders == {"little", "big"}

scalar_encode ==
    /\ phase = "scalar"
    /\ ~call_out.done
    /\ LET calls == IF call_in.lang = "c"
                    THEN ULOG_DISPATCH_GENERIC(call_in.id, call_in.arg)
                    ELSE emit_single_arg(call_in.id, call_in.arg)
       IN  call_out' = [done |-> TRUE,
                        calls |-> calls,
                        pkts |-> [j \in 1 .. Len(calls) |->
                                    FillPacket(ZeroPacket, calls[j].id, calls[j].data)]]
    /\ UNCHANGED <<codec_in, codec_len, call_in>>
    /\ UNCHANGED coreVars
    /\ UNCHANGED portVars
    /\ UNCHANGED obsVars
    /\ UNCHANGED scenarioVars
    /\ UNCHANGED recordVars
    /\ UNCHANGED contextVars

InitScalar ==
    /\ InitProgram
    /\ codec_in = << >>
    /\ port = "poll"
    /\ phase = "scalar"
    /\ producer_fn = "any"
    /\ call_in \in {[lang |-> lang, id |-> id, arg |-> arg] :
                       lang \in {"c", "cpp"}, id \in StringIds,
                       arg \in UNION {ScalarArgs(order) : order \in ByteOrders}}
    /\ call_out = [done |-> FALSE, calls |-> << >>, pkts |-> << >>]

NextScalar == scalar_encode

SpecScalar == InitScalar /\ [][NextScalar]_vars

\* The width the claim gives the type of an argument.
WidthOf(arg) ==
    CASE arg.type \in {"bool", "u8", "s8"} -> 1
      [] arg.type \in {"u16", "s16"} -> 2
      [] arg.type \in {"u32", "s32", "float"} -> 4

\* The value that w bytes give when put together least significant first,
\* as an unsigned number for w < 4 and as the 32 bits of an integer for w = 4.
Reassemble(data, w) ==
    IF w = 1 THEN data[1]
    ELSE IF w = 2 THEN data[1] + 256 * data[2]
    ELSE data[1] + 256 * data[2] + 65536 * data[3]
         + 16777216 * (IF data[4] >= 128 THEN data[4] - 256 ELSE data[4])

\* The bits of a value as Reassemble gives them.
BitsOf(arg) ==
    IF WidthOf(arg) = 1 THEN arg.value % 256
    ELSE IF WidthOf(arg) = 2 THEN arg.value % 65536
    ELSE arg.value

(***************************************************************************)
(* C29 -- argument round trip. For a value of a supported scalar type of   *)
(* width w the C dispatchers and the C++ templates make one enqueue call   *)
(* with w data bytes; the packet filled has length ULOG_ID_SIZE + w; and   *)
(* the data bytes, put together least significant first, are the bits of   *)
(* the value.                                                              *)
(***************************************************************************)
C29_ArgumentRoundTrip ==
    (phase = "scalar" /\ call_out.done)
      => LET w == WidthOf(call_in.arg)
         IN  /\ Len(call_out.calls) = 1
             /\ Len(call_out.calls[1].data) = w
             /\ \A i \in 1 .. w : call_out.calls[1].data[i] \in 0 .. 255
             /\ call_out.pkts[1].payload_len = ULOG_ID_SIZE + w
             /\ \A i \in 1 .. w :
                   call_out.pkts[1].payload[ULOG_ID_SIZE + i - 1] = call_out.calls[1].data[i]
             /\ Reassemble(call_out.calls[1].data, w) = BitsOf(call_in.arg)

\* The same, for everything but a float logged from C++ on a big-endian
\* target.
C29_RoundTripExceptFloatBigEndian ==
    (phase = "scalar" /\ call_out.done
       /\ ~(call_in.lang = "cpp" /\ call_in.arg.type = "float" /\ call_in.arg.order = "big"))
      => LET w == WidthOf(call_in.arg)
         IN  /\ Len(call_out.calls) = 1
             /\ Len(call_out.calls[1].data) = w
             /\ call_out.pkts[1].payload_len = ULOG_ID_SIZE + w
             /\ Reassemble(call_out.calls[1].data, w) = BitsOf(call_in.arg)


(***************************************************************************)
(* The typecode on its own: for a call with 0 to 8 scalar arguments the    *)
(* typecode is computed as the C macros compute it and as the C++ template *)
(* computes it. A typecode is a uint32_t, carried as the integer of        *)
(* -2^31 .. 2^31 - 1 that has its 32 bits.                                 *)
(***************************************************************************)
ULOG_TRAIT_ID_NONE == 0
ULOG_TRAIT_ID_U8 == 1
ULOG_TRAIT_ID_S8 == 2
ULOG_TRAIT_ID_BOOL == 3
ULOG_TRAIT_ID_U16 == 4
ULOG_TRAIT_ID_S16 == 5
ULOG_TRAIT_ID_PTR == 6
ULOG_TRAIT_ID_U32 == 7
ULOG_TRAIT_ID_S32 == 8
ULOG_TRAIT_ID_FLOAT == 9
ULOG_TRAIT_ID_STR == 10

\* The most arguments a log call takes.
MaxArgs == 8

\* 2 to the power n, 0 <= n <= 30.
RECURSIVE Pow2(_)
Pow2(n) == IF n = 0 THEN 1 ELSE 2 * Pow2(n - 1)

\* Bit n of a 32-bit value.
BitAt(v, n) == ((v - (v % Pow2(n))) \div Pow2(n)) % 2

\* a | b on 32 bits: bits 0 to 30 from bit n on, and the sign bit.
RECURSIVE BitOrFrom(_, _, _)
BitOrFrom(a, b, n) ==
    IF n > 30 THEN 0
    ELSE (IF BitAt(a, n) = 1 \/ BitAt(b, n) = 1 THEN Pow2(n) ELSE 0) + BitOrFrom(a, b, n + 1)

BitOr32(a, b) ==
    (IF a < 0 \/ b < 0 THEN -2147483647 - 1 ELSE 0) + BitOrFrom(a, b, 0)

\* v << n kept to 32 bits, for 0 <= v < 16 and n a multiple of 4 up to 28.
ShiftLeft32(v, n) ==
    IF n = 28 /\ v >= 8 THEN (v - 16) * Pow2(28) ELSE v * Pow2(n)

\* _ULOG_TC (ulog.h:177-187).
ULOG_TC(type) ==
    CASE type = "u8" -> ULOG_TRAIT_ID_U8
      [] type = "s8" -> ULOG_TRAIT_ID_S8
      [] type = "bool" -> ULOG_TRAIT_ID_BOOL
      [] type = "u16" -> ULOG_TRAIT_ID_U16
      [] type = "s16" -> ULOG_TRAIT_ID_S16
      [] type = "u32" -> ULOG_TRAIT_ID_U32
      [] type = "s32" -> ULOG_TRAIT_ID_S32
      [] type = "float" -> ULOG_TRAIT_ID_FLOAT
      [] type = "double" -> ULOG_TRAIT_ID_FLOAT
      [] OTHER -> ULOG_TRAIT_ID_NONE

\* The typecode expression of _ULOG_DISPATCH_k (ulog.h:230-327) for the
\* first k arguments: (TC(k-th) << 4(k-1)) | ... | (TC(b) << 4) | TC(a).
RECURSIVE ULOG_DISPATCH_typecode(_, _)
ULOG_DISPATCH_typecode(types, k) ==
    IF k = 0 THEN 0
    ELSE IF k = 1 THEN ULOG_TC(types[1])
    ELSE BitOr32(ShiftLeft32(ULOG_TC(types[k]), 4 * (k - 1)),
                 ULOG_DISPATCH_typecode(types, k - 1))

\* An arg_trait that does not look at the sign of an integer.
arg_trait_unsigned(type) ==
    IF type = "bool" THEN ULOG_TRAIT_ID_BOOL
    ELSE IF type = "float" THEN ULOG_TRAIT_ID_FLOAT
    ELSE IF type \in {"u8", "s8"} THEN ULOG_TRAIT_ID_U8
    ELSE IF type \in {"u16", "s16"} THEN ULOG_TRAIT_ID_U16
    ELSE ULOG_TRAIT_ID_U32

\* arg_trait (ulog.h:364-389).
arg_trait(type) ==
    IF type = "bool" THEN ULOG_TRAIT_ID_BOOL
    ELSE IF type \in {"const char*", "char*"} THEN ULOG_TRAIT_ID_STR
    ELSE IF type \in {"float", "double"} THEN ULOG_TRAIT_ID_FLOAT
    ELSE IF type = "ptr16" THEN ULOG_TRAIT_ID_PTR
    ELSE IF type = "s8" THEN ULOG_TRAIT_ID_S8
    ELSE IF type = "s16" THEN ULOG_TRAIT_ID_S16
    ELSE IF type = "s32" THEN ULOG_TRAIT_ID_S32
    ELSE IF type = "u8" THEN ULOG_TRAIT_ID_U8
    ELSE IF type = "u16" THEN ULOG_TRAIT_ID_U16
    ELSE IF type = "u32" THEN ULOG_TRAIT_ID_U32
    ELSE ULOG_TRAIT_ID_NONE

\* encode_traits (ulog.h:391-398): the fold, from argument j on, with the
\* locals i and result.
RECURSIVE encode_traits(_, _, _, _)
encode_traits(types, j, i, result) ==
    IF j > Len(types) THEN result
    ELSE encode_traits(types, j + 1, i + 1,
                       BitOr32(result, ShiftLeft32(arg_trait(types[j]), i * 4)))

\* The scalar types, in an order to draw runs from.
ScalarTypes == <<"u8", "s8", "bool", "u16", "s16", "u32", "s32", "float">>

\* The k types that follow each other in ScalarTypes (cyclically) from
\* position s, every step-th one.
TypeRun(s, step, k) ==
    [i \in 1 .. k |-> ScalarTypes[((s - 1 + step * (i - 1)) % Len(ScalarTypes)) + 1]]

\* The argument types of the calls: every run, forwards, with a stride and
\* of one type only.
TypeLists ==
    {TypeRun(s, step, k) : s \in 1 .. Len(ScalarTypes), step \in {0, 1, 3}, k \in 0 .. MaxArgs}

typecode_encode ==
    /\ phase = "typecode"
    /\ ~call_out.done
    /\ call_out' = [done |-> TRUE,
                    c |-> ULOG_DISPATCH_typecode(call_in.types, Len(call_in.types)),
                    cpp |-> encode_traits(call_in.types, 1, 0, 0)]
    /\ UNCHANGED <<codec_in, codec_len, call_in>>
    /\ UNCHANGED coreVars
    /\ UNCHANGED portVars
    /\ UNCHANGED obsVars
    /\ UNCHANGED scenarioVars
    /\ UNCHANGED recordVars
    /\ UNCHANGED contextVars

InitTypeCode ==
    /\ InitProgram
    /\ codec_in = << >>
    /\ port = "poll"
    /\ phase = "typecode"
    /\ producer_fn = "any"
    /\ call_in \in {[types |-> t] : t \in TypeLists}
    /\ call_out = [done |-> FALSE, c |-> 0, cpp |-> 0]

NextTypeCode == typecode_encode

SpecTypeCode == InitTypeCode /\ [][NextTypeCode]_vars

\* The tag of a scalar type, as the trait ids are listed (ulog.h:87-97).
TagOf(type) ==
    CASE type = "u8" -> 1 [] type = "s8" -> 2 [] type = "bool" -> 3
      [] type = "u16" -> 4 [] type = "s16" -> 5
      [] type = "u32" -> 7 [] type = "s32" -> 8 [] type = "float" -> 9

\* Bits 4i .. 4i+3 of a typecode.
Nibble(tc, i) == ((tc - (tc % Pow2(4 * i))) \div Pow2(4 * i)) % 16

(***************************************************************************)
(* C30 -- typecode packing. For a call with k <= 8 scalar arguments the    *)
(* typecode has the tag of argument i in bits 4i .. 4i+3 and zero in every *)
(* position from k on, and the C macros and the C++ encode_traits give the *)
(* same typecode.                                                          *)
(***************************************************************************)
C30_TypeCodePacking ==
    (phase = "typecode" /\ call_out.done)
      => LET k == Len(call_in.types)
         IN  /\ k <= MaxArgs
             /\ \A i \in 0 .. (k - 1) :
                   /\ Nibble(call_out.c, i) = TagOf(call_in.types[i + 1])
                   /\ Nibble(call_out.cpp, i) = TagOf(call_in.types[i + 1])
             /\ \A i \in k .. (MaxArgs - 1) :
                   /\ Nibble(call_out.c, i) = 0
                   /\ Nibble(call_out.cpp, i) = 0
             /\ call_out.c = call_out.cpp

\* A call with eight arguments, the first a float and the last an int32_t:
\* tag 9 in bits 0..3, tag 8 in bits 28..31 (the top bit of the typecode
\* set), in C and in C++.
C30_Witness ==
    /\ phase = "typecode"
    /\ call_out.done
    /\ Len(call_in.types) = MaxArgs
    /\ call_in.types[1] = "float"
    /\ call_in.types[2] = "u8"
    /\ call_in.types[MaxArgs] = "s32"
    /\ call_out.c < 0
    /\ call_out.cpp = call_out.c
    /\ Nibble(call_out.c, 7) = ULOG_TRAIT_ID_S32
    /\ Nibble(call_out.c, 0) = ULOG_TRAIT_ID_FLOAT

(***************************************************************************)
(* The tags of a C++ log call: for one or two arguments of the types the   *)
(* C++ front end accepts, strings included, the typecode encode_traits     *)
(* records is computed together with the way emit_single_arg sends each    *)
(* argument. A char array keeps its array type in Args (the lambda takes   *)
(* Args&&), so it is neither const char* nor char* there.                  *)
(***************************************************************************)
CppTypes == {"u8", "s8", "bool", "u16", "s16", "u32", "s32", "float",
             "const char*", "char*", "char[]", "const char[]"}

\* The test of emit_single_arg (ulog.h:500-503): the argument is sent by
\* send_string_chunks.
IsStringArg(type) == type \in {"const char*", "char*", "char[]", "const char[]"}

trait_encode ==
    /\ phase = "trait"
    /\ ~call_out.done
    /\ call_out' = [done |-> TRUE,
                    typecode |-> encode_traits(call_in.types, 1, 0, 0),
                    chain |-> [i \in 1 .. Len(call_in.types) |-> IsStringArg(call_in.types[i])]]
    /\ UNCHANGED <<codec_in, codec_len, call_in>>
    /\ UNCHANGED coreVars
    /\ UNCHANGED portVars
    /\ UNCHANGED obsVars
    /\ UNCHANGED scenarioVars
    /\ UNCHANGED recordVars
    /\ UNCHANGED contextVars

InitTrait ==
    /\ InitProgram
    /\ codec_in = << >>
    /\ port = "poll"
    /\ phase = "trait"
    /\ producer_fn = "any"
    /\ call_in \in {[types |-> t] : t \in UNION {[1 .. k -> CppTypes] : k \in 1 .. 2}}
    /\ call_out = [done |-> FALSE, typecode |-> 0, chain |-> << >>]

NextTrait == trait_encode

SpecTrait == InitTrait /\ [][NextTrait]_vars

(***************************************************************************)
(* C31 -- every argument sent as a string chain has the tag str (10) at    *)
(* its position in the typecode of the call.                               *)
(***************************************************************************)
C31_StringTagged ==
    (phase = "trait" /\ call_out.done)
      => \A i \in 1 .. Len(call_in.types) :
            call_out.chain[i] => Nibble(call_out.typecode, i - 1) = 10

\* The same for the pointer types only: const char* and char* get the tag.
C31_PointerStringsTagged ==
    (phase = "trait" /\ call_out.done)
      => \A i \in 1 .. Len(call_in.types) :
            call_in.types[i] \in {"const char*", "char*"}
               => (call_out.chain[i] /\ Nibble(call_out.typecode, i - 1) = 10)

(***************************************************************************)
(* The identifier of a call-site on its own: two records of the .logs      *)
(* section, each at a 256-byte-aligned address, and the section start      *)
(* __ulog_logs_start; ulog_id_rel is applied to each. Addresses are kept   *)
(* small enough to be written down; ulog_id_rel only uses addr - base.     *)
(***************************************************************************)
\* ulog_id_rel as test_link.c has it, returning a uint8_t.
ulog_id_rel_u8(p, base) == ((p - base) \div 256) % 256

\* ulog_id_rel (ulog_port.h:40-45): (uint16_t)((addr - base) >> 8).
ulog_id_rel(p, base) == ((p - base) \div 256) % 65536

\* Record slots of the section the two call-sites are drawn from.
RecordSlots == {0, 1, 2, 255, 256, 257, 511, 32759}

\* Where the section starts: at 0, at an aligned address, and (the first
\* record then lying 240 bytes in) at an unaligned one.
LogsStarts == {0, 4194304, 4194320}

\* The address of the record in slot n of the section starting at base:
\* the n-th 256-byte boundary at or after base.
RecordAddress(base, n) == (256 * ((base + 255) \div 256)) + 256 * n

ident_compute ==
    /\ phase = "ident"
    /\ ~call_out.done
    /\ call_out' = [done |-> TRUE,
                    id_a |-> ulog_id_rel(call_in.a, call_in.base),
                    id_b |-> ulog_id_rel(call_in.b, call_in.base)]
    /\ UNCHANGED <<codec_in, codec_len, call_in>>
    /\ UNCHANGED coreVars
    /\ UNCHANGED portVars
    /\ UNCHANGED obsVars
    /\ UNCHANGED scenarioVars
    /\ UNCHANGED recordVars
    /\ UNCHANGED contextVars

InitIdent ==
    /\ InitProgram
    /\ codec_in = << >>
    /\ port = "linux"
    /\ phase = "ident"
    /\ producer_fn = "any"
    /\ call_in \in {[base |-> base, a |-> RecordAddress(base, m), b |-> RecordAddress(base, n)] :
                       base \in LogsStarts, m \in RecordSlots, n \in RecordSlots}
    /\ call_out = [done |-> FALSE, id_a |-> 0, id_b |-> 0]

NextIdent == ident_compute

SpecIdent == InitIdent /\ [][NextIdent]_vars

RingStore ==
    \/ log_head' # log_head
    \/ log_tail' # log_tail
    \/ buffer_overrun' # buffer_overrun

\* A step that executes _ULOG_PORT_NOTIFY().
NotifyStep ==
    \/ main_enqueue.pc = "notify" /\ main_enqueue'.pc = "idle"
    \/ EnqueueStep /\ main_enqueue' = main_enqueue /\ worker_pc' # worker_pc

(***************************************************************************)
(* C34 -- concurrency discipline. log_head, log_tail and buffer_overrun    *)
(* are read and modified only inside a critical section, and at most one   *)
(* context is inside one at a time: while the step-by-step producer is     *)
(* inside reserve_log_packet the values it read on entry are still the     *)
(* current ones (and on the AVR ports interrupts are off); a step that     *)
(* stores one of the three is either that producer's own step out of the   *)
(* critical section or is taken by another context while nobody is inside; *)
(* a context enters only from outside; and the notification is executed    *)
(* only while the critical section is free.                                *)
(***************************************************************************)
C34_CriticalSectionDiscipline ==
    /\ [](main_enqueue.pc = "reserve"
            => /\ main_enqueue.head = log_head
               /\ main_enqueue.overrun = buffer_overrun
               /\ (port \in {"poll", "asx"} => ~interrupts))
    /\ [][/\ RingStore
             => \/ /\ main_enqueue.pc = "reserve"
                   /\ main_enqueue'.pc # "reserve"
                   /\ log_tail' = log_tail
                \/ /\ main_enqueue.pc # "reserve"
                   /\ main_enqueue' = main_enqueue
          /\ (main_enqueue'.pc = "reserve" /\ main_enqueue' # main_enqueue)
             => main_enqueue.pc = "idle"
          /\ NotifyStep => (CriticalSectionFree /\ main_enqueue'.pc # "reserve")]_vars

\* The main thread is inside reserve_log_packet, holding the mutex, while
\* the woken worker has a packet to send and the other producer has enqueued
\* before.
C34_Witness ==
    /\ phase = "threads"
    /\ main_enqueue.pc = "reserve"
    /\ worker_pc = "woken"
    /\ log_head # log_tail
    /\ last_call.fn = "ulog_detail_enqueue_1"


\* What cobs_encode does with a body given as a sequence, from the scratch
\* buffer as it is.
EncodeBody(body) ==
    cobs_encode(tx_encoded, [i \in 0 .. (Len(body) - 1) |-> body[i + 1]], Len(body))

\* The encoder, given the body, returns its length plus 2, at most the size
\* of tx_encoded, and makes no store outside tx_encoded.
EncodeFits(body) ==
    LET e == EncodeBody(body)
    IN  /\ e.encoded_len = Len(body) + 2
        /\ e.encoded_len <= TxSize
        /\ ~e.overflow
        /\ DOMAIN e.tx_encoded = 0 .. (TxSize - 1)

(***************************************************************************)
(* C35 -- the scratch buffer of the 16-bit core is large enough. For every *)
(* body of 2 to 6 bytes (an id and 0 to 4 data bytes, whatever their       *)
(* values) and for the 3-byte overrun body, cobs_encode returns the body   *)
(* length plus 2, at most 8, and stores only into tx_encoded[0..7]; the    *)
(* same holds for every packet waiting in the ring, and every frame the    *)
(* drain has handed to the sink is at most 8 bytes long.                   *)
(***************************************************************************)
C35_ScratchLargeEnough ==
    (port # "asx8")
      => /\ (phase = "codec" /\ Len(codec_in) >= ULOG_ID_SIZE)
              => /\ EncodeFits(codec_in)
                 /\ codec_len > 0 => codec_len = Len(codec_in) + 2
         /\ EncodeFits(Bytes(overrun_payload(buffer_overrun), 3))
         /\ \A j \in 0 .. (Queued - 1) :
               (main_enqueue.pc # "fill")
                 => /\ QueuedPacket(j).payload_len \in ULOG_ID_SIZE .. PayloadSize
                    /\ EncodeFits(Body(QueuedPacket(j)))
         /\ \A o \in 1 .. Len(sink) : Len(sink[o]) <= TxSize

\* A body of six bytes with sentinels in the id and in the data has been
\* encoded into a frame that fills the scratch buffer.
C35_Witness ==
    /\ phase = "codec"
    /\ Len(codec_in) = PayloadSize
    /\ codec_in[2] = COBS_EOF
    /\ codec_in[PayloadSize - 1] = COBS_EOF
    /\ codec_in[PayloadSize] = 255
    /\ codec_len = TxSize
    /\ tx_encoded[TxSize - 1] = COBS_EOF


(***************************************************************************)
(* C36 -- the scratch buffer of the 8-bit core is large enough. For every  *)
(* packet the enqueue functions of ulog.cpp have put into the ring (an id  *)
(* and 0 to 4 data bytes), cobs_encode stores only into tx_encoded, and    *)
(* every frame handed to the UART lies within tx_encoded.                  *)
(***************************************************************************)
C36_AsxScratchLargeEnough ==
    (port = "asx8")
      => /\ \A j \in 0 .. (Queued - 1) :
               /\ QueuedPacket(j).payload_len \in 1 .. AsxPayloadSize
               /\ ~EncodeBody(Body(QueuedPacket(j))).overflow
         /\ \A o \in 1 .. Len(sink) : Len(sink[o]) <= AsxTxSize


\* The start-of-stream frame: 03 7F FE A6.
StartFrame == <<3, ULOG_ID_START \div 256, ULOG_ID_START % 256, COBS_EOF>>

(***************************************************************************)
(* C37 -- the start frame is intact. The frame cobs_encode produces for    *)
(* the body (0x7F, 0xFE) is 03 7F FE A6, the initializer of tx_encoded     *)
(* holds it, and the four bytes _ulog_init hands to the sink are always    *)
(* these: no encode has overwritten tx_encoded before _ulog_init runs.     *)
(***************************************************************************)
C37_StartFrameIntact ==
    /\ [](/\ Frame(<<ULOG_ID_START \div 256, ULOG_ID_START % 256>>) = StartFrame
          /\ Bytes(TxEncodedInit, 4) = StartFrame
          /\ ~started => Bytes(tx_encoded, 4) = StartFrame)
    /\ [][(~started /\ started') => sink'[Len(sink')] = StartFrame]_vars


(***************************************************************************)
(* C38 -- byte order of the body. An enqueue call that gets a slot leaves  *)
(* in it the most significant byte of its id, then the least significant   *)
(* byte, then its 0 to 4 data bytes, with payload_len 2 plus the number of *)
(* data bytes, so that the continuation flag 0x8000 is bit 7 of the first  *)
(* body byte; the frame the drain sends for a slot decodes to these bytes; *)
(* the overrun frame decodes to 7F FF 00 and the start frame to 7F FE.     *)
(***************************************************************************)
C38_BodyByteOrder ==
    /\ [][(EnqueueStep /\ last_call'.reserved)
             => \E id \in CallIds :
                   LET pkt == logs_circular_buffer'[log_head]
                       n == pkt.payload_len - 2
                   IN  /\ pkt.payload[0] = id \div 256
                       /\ pkt.payload[1] = id % 256
                       /\ n \in 0 .. MAX_PAYLOAD
                       /\ last_call'.fn = EnqueueFn(n)
                       /\ \A i \in 0 .. (n - 1) : pkt.payload[2 + i] \in DataBytes(i)
                       /\ (pkt.payload[0] >= 128) <=> (id >= ULOG_ID_CONTINUATION)]_vars
    /\ [][SendStep
             => LET body == cobs_decode(sink'[Len(sink')])
                    pkt == logs_circular_buffer[log_tail]
                IN  /\ (last_call'.kind = "user")
                         => /\ Len(body) = pkt.payload_len
                            /\ \A i \in 1 .. Len(body) : body[i] = pkt.payload[i - 1]
                    /\ (last_call'.kind = "overrun")
                         => body = <<ULOG_ID_OVERRUN \div 256, ULOG_ID_OVERRUN % 256, 0>>
                    /\ (last_call'.kind = "start")
                         => body = <<ULOG_ID_START \div 256, ULOG_ID_START % 256>>]_vars
    /\ [](started => cobs_decode(sink[1]) = <<ULOG_ID_START \div 256, ULOG_ID_START % 256>>)

\* A packet with the continuation flag and four data bytes has been sent,
\* after an overrun frame, and another continuation packet has just been
\* enqueued.
C38_Witness ==
    /\ phase = "record"
    /\ \E o \in 1 .. Len(sink), u \in 1 .. Len(sink) :
          /\ o < u
          /\ IsOverrunFrame(sink[o])
          /\ IsUserFrame(sink[u])
          /\ Len(cobs_decode(sink[u])) = PayloadSize
          /\ cobs_decode(sink[u])[1] >= 128
    /\ last_call.fn \in EnqueueFns
    /\ last_call.reserved
    /\ log_head # log_tail


(***************************************************************************)
(* Shutdown of the Linux port. The destructor _ulog_linux_deinit           *)
(* (ulog_linux.cpp:73-82) calls ulog_flush, sets the stop flag and signals *)
(* the condition under the mutex, and joins the worker thread. The worker  *)
(* (ulog_linux.cpp:41-65) is followed through its loop: the top (lock,     *)
(* test the flag, wait), the wake-up (the mutex is held again: test the    *)
(* flag, unlock) and the call of _ulog_transmit. A producer thread logs    *)
(* before and during the shutdown.                                         *)
(***************************************************************************)
\* The worker returns from pthread_cond_wait (ulog_linux.cpp:52-59): out
\* of the loop when the stop flag is set, otherwise on to _ulog_transmit.
linux_worker_wake ==
    /\ phase = "shutdown"
    /\ worker_pc = "woken"
    /\ worker_pc' = IF stop_thread THEN "exited" ELSE "transmit"
    /\ UNCHANGED <<started, uart_ready, notified, port>>
    /\ UNCHANGED coreVars
    /\ UNCHANGED obsVars
    /\ UNCHANGED scenarioVars
    /\ UNCHANGED recordVars
    /\ UNCHANGED contextVars
    /\ UNCHANGED codecVars

\* Line 62: the call of _ulog_transmit, and back to the top of the loop.
linux_worker_send ==
    /\ phase = "shutdown"
    /\ worker_pc = "transmit"
    /\ worker_pc' = "top"
    /\ TransmitCall
    /\ UNCHANGED <<notified, flush_pc>>

\* _ulog_linux_deinit is entered and calls ulog_flush (line 75), up to the
\* first test of the ring (ulog.c:287-289).
ulog_linux_deinit ==
    /\ phase = "shutdown"
    /\ deinit_pc = "idle"
    /\ deinit_pc' = "flush"
    /\ flush_pc' = FlushNext(flush_pc, log_head, log_tail)
    /\ UNCHANGED <<main_enqueue, interrupts, context, stop_thread>>
    /\ UNCHANGED coreVars
    /\ UNCHANGED portVars
    /\ UNCHANGED obsVars
    /\ UNCHANGED scenarioVars
    /\ UNCHANGED recordVars
    /\ UNCHANGED codecVars

\* Lines 77-80, once ulog_flush has returned: lock, set the flag, signal
\* (which wakes the worker only if it is waiting), unlock.
ulog_linux_deinit_stop ==
    /\ deinit_pc = "flush"
    /\ flush_pc = "idle"
    /\ deinit_pc' = "join"
    /\ stop_thread' = TRUE
    /\ worker_pc' = PortNotify(port, notified, worker_pc).worker_pc
    /\ last_call' = [fn |-> "_ulog_linux_deinit", reserved |-> FALSE,
                     notify |-> TRUE, kind |-> "none"]
    /\ UNCHANGED <<flush_pc, main_enqueue, interrupts, context>>
    /\ UNCHANGED <<started, uart_ready, notified, port>>
    /\ UNCHANGED <<sink, attempts, accepted>>
    /\ UNCHANGED coreVars
    /\ UNCHANGED scenarioVars
    /\ UNCHANGED recordVars
    /\ UNCHANGED codecVars

\* Line 81: pthread_join returns once the worker thread has returned.
ulog_linux_deinit_join ==
    /\ deinit_pc = "join"
    /\ worker_pc = "exited"
    /\ deinit_pc' = "done"
    /\ UNCHANGED <<flush_pc, main_enqueue, interrupts, context, stop_thread>>
    /\ UNCHANGED coreVars
    /\ UNCHANGED portVars
    /\ UNCHANGED obsVars
    /\ UNCHANGED scenarioVars
    /\ UNCHANGED recordVars
    /\ UNCHANGED codecVars

InitShutdown ==
    /\ log_head = 0
    /\ log_tail = 0
    /\ logs_circular_buffer = [i \in SlotIndex |-> ZeroPacket]
    /\ tx_encoded = TxEncodedInit
    /\ buffer_overrun = 0
    /\ port = "linux"
    /\ started = TRUE
    /\ uart_ready = TRUE
    /\ notified = FALSE
    /\ worker_pc = "top"
    /\ sink = <<Bytes(TxEncodedInit, 4)>>
    /\ attempts = 0
    /\ accepted = << >>
    /\ last_call = [fn |-> "_ulog_init", reserved |-> FALSE, notify |-> FALSE, kind |-> "start"]
    /\ phase = "shutdown"
    /\ producer_fn = "any"
    /\ burst_start = 0
    /\ codec_in = << >>
    /\ codec_len = 0
    /\ call_in = << >>
    /\ call_out = << >>
    /\ InitContext

\* The steps of the worker thread, and of the thread in _ulog_linux_deinit.
WorkerNext ==
    \/ linux_worker_wait
    \/ linux_worker_wake
    \/ linux_worker_send

DeinitNext ==
    \/ ulog_flush_test
    \/ ulog_flush_transmit
    \/ ulog_linux_deinit_stop
    \/ ulog_linux_deinit_join

NextShutdown ==
    \/ ulog_detail_enqueue_1
    \/ ulog_linux_deinit
    \/ WorkerNext
    \/ DeinitNext

SpecShutdown == InitShutdown /\ [][NextShutdown]_vars

\* A step of the worker thread, by its position: from the top of the loop,
\* from the wake-up and from the call of _ulog_transmit (from
\* pthread_cond_wait it moves only when signalled).
WorkerRuns ==
    \/ worker_pc = "top" /\ worker_pc' \in {"waiting", "exited"}
    \/ worker_pc = "woken" /\ worker_pc' \in {"transmit", "exited"}
    \/ worker_pc = "transmit" /\ worker_pc' = "top"

\* A step of the thread in _ulog_linux_deinit, by its position: in the loop
\* of ulog_flush, before the lock, and in pthread_join once the worker has
\* returned.
DeinitRuns ==
    \/ flush_pc = "loop" /\ flush_pc' \in {"body", "idle"} /\ deinit_pc' = deinit_pc
    \/ flush_pc = "body" /\ flush_pc' = "loop" /\ deinit_pc' = deinit_pc
    \/ deinit_pc = "flush" /\ flush_pc = "idle" /\ deinit_pc' = "join" /\ flush_pc' = flush_pc
    \/ deinit_pc = "join" /\ worker_pc = "exited" /\ deinit_pc' = "done" /\ flush_pc' = flush_pc

\* Both threads are scheduled: a thread that can take a step takes one
\* (the mutex is held only within a step, so a step is never blocked).
SpecShutdownLive ==
    /\ SpecShutdown
    /\ WF_worker_pc(WorkerRuns)
    /\ WF_<<flush_pc, deinit_pc>>(DeinitRuns)

(***************************************************************************)
(* C39 -- shutdown terminates. Once _ulog_linux_deinit has been entered it *)
(* returns: the flush ends, and after the stop flag has been set and the   *)
(* condition signalled the worker leaves its loop, wherever it was when    *)
(* the signal was sent, so that the join returns. When it has returned the *)
(* worker has exited and the ring was found empty by the flush.            *)
(***************************************************************************)
C39_ShutdownTerminates ==
    /\ (deinit_pc # "idle") ~> (deinit_pc = "done")
    /\ stop_thread ~> (worker_pc = "exited")
    /\ [](deinit_pc = "done" => (worker_pc = "exited" /\ stop_thread))
    /\ [](worker_pc = "exited" => stop_thread)

\* _ulog_linux_deinit has returned although the worker was inside
\* _ulog_transmit when the signal was sent: the call was the last thing
\* that happened after the signal.
C39_Witness ==
    /\ phase = "shutdown"
    /\ deinit_pc = "done"
    /\ worker_pc = "exited"
    /\ last_call.fn = "_ulog_transmit"
    /\ Len(sink) >= 3


=============================================================================
